---- MODULE Spec2Model ----
(***************************************************************************)
(* The configuration store of ethcli (src/ethcli/config_commands.py): the  *)
(* JSON file $HOME/.ethcli/config.json, the module-level DEFAULT_CONFIG,   *)
(* load_config / save_config and the click commands config set, get,      *)
(* reset and path.  One action is one CLI invocation (one process).        *)
(*                                                                         *)
(* Strings are sequences of symbols.  A symbol is one character ("t", "1", *)
(* ".", " ") or, for readability, a run of letters, underscores and URL    *)
(* characters that holds no "." and no digit ("default_network",           *)
(* "mainnet", "https://mainnet").  A string is always spelled the same     *)
(* way, so equality of sequences is equality of strings.                   *)
(*                                                                         *)
(* JSON values are tagged records; a dict's members are a function from    *)
(* keys (strings) to values.  The file content is a sequence of JSON       *)
(* tokens, written by json_dump and read back by json_load.                *)
(***************************************************************************)
EXTENDS Integers, Sequences, FiniteSets, TLC

VARIABLES disk, fs, last, steps, resets, procs, versions, cli, defaults, config_py, cache

vars == <<disk, fs, last, steps, resets, procs, versions, cli, defaults, config_py, cache>>

(* ------------------------------ bounds --------------------------------- *)

\* The number of CLI invocations in one behaviour.
MaxSteps == 2

(* ------------------------------ strings -------------------------------- *)

Digits == {"0", "1", "2", "3", "4", "5", "6", "7", "8", "9"}

\* str.lower() on one symbol
LowerSym(c) ==
  CASE c = "T" -> "t" [] c = "R" -> "r" [] c = "U" -> "u" [] c = "E" -> "e"
    [] c = "F" -> "f" [] c = "A" -> "a" [] c = "L" -> "l" [] c = "S" -> "s"
    [] c = "N" -> "n" [] c = "O" -> "o" [] c = "Y" -> "y"
    [] c = "YOUR_INFURA_PROJECT_ID" -> "your_infura_project_id"
    [] OTHER -> c

\* str.lower()
Lower(s) == [i \in 1..Len(s) |-> LowerSym(s[i])]

DigitVal(c) ==
  CASE c = "0" -> 0 [] c = "1" -> 1 [] c = "2" -> 2 [] c = "3" -> 3
    [] c = "4" -> 4 [] c = "5" -> 5 [] c = "6" -> 6 [] c = "7" -> 7
    [] c = "8" -> 8 [] c = "9" -> 9 [] OTHER -> 0

\* s[a..b] (1-based, inclusive); empty when a > b
Slice(s, a, b) == [i \in 1..(IF b >= a THEN b - a + 1 ELSE 0) |-> s[a + i - 1]]

\* the positions of symbol c in s
Positions(s, c) == {i \in 1..Len(s) : s[i] = c}

\* str.split(sep): the pieces between the occurrences of sep; always at
\* least one piece, empty pieces kept ("".split(".") == [""])
RECURSIVE split(_, _)
split(s, sep) ==
  IF Positions(s, sep) = {} THEN <<s>>
  ELSE LET p == CHOOSE i \in Positions(s, sep) : \A j \in Positions(s, sep) : i <= j
       IN  <<Slice(s, 1, p - 1)>> \o split(Slice(s, p + 1, Len(s)), sep)

\* '.'.join(parts)
RECURSIVE join(_)
join(parts) ==
  IF Len(parts) = 0 THEN <<>>
  ELSE IF Len(parts) = 1 THEN parts[1]
  ELSE parts[1] \o <<".">> \o join(Tail(parts))

\* `needle in hay` for two strings: needle is a contiguous part of hay
IsSubstring(needle, hay) ==
  \E a \in 1..(Len(hay) + 1) :
     /\ a + Len(needle) - 1 <= Len(hay)
     /\ Slice(hay, a, a + Len(needle) - 1) = needle

\* str.strip() of blanks
RECURSIVE Strip(_)
Strip(s) ==
  IF Len(s) = 0 THEN s
  ELSE IF s[1] = " " THEN Strip(Tail(s))
  ELSE IF s[Len(s)] = " " THEN Strip(Slice(s, 1, Len(s) - 1))
  ELSE s

(* ------------------------------- values -------------------------------- *)

\* every value has the same fields, so that any two values compare: the
\* type t, the symbols s of a str, the numbers n of an int, bool or float,
\* the members d of a dict
Val(t, s, n, d) == [s |-> s, t |-> t, n |-> n, d |-> d]

StrV(s) == Val("str", s, <<>>, <<>>)

IntV(n) == Val("int", <<>>, <<n>>, <<>>)

BoolV(b) == Val("bool", <<>>, <<IF b THEN 1 ELSE 0>>, <<>>)

NullV == Val("null", <<>>, <<>>, <<>>)

\* a finite float m * 10^e (m not a multiple of 10 unless 0), or nan / inf
FloatV(kind, m, e) == Val("float", <<kind>>, <<m, e>>, <<>>)

DictV(f) == Val("dict", <<>>, <<>>, f)

\* no value (an operation that produced none)
Nothing == Val("nothing", <<>>, <<>>, <<>>)

EmptyDict == DictV(<<>>)

IsDict(x) == x.t = "dict"

\* d[k] = x on a dict
DictSet(d, k, x) == DictV((k :> x) @@ d.d)

(* --------------------------- int() and float() ------------------------- *)

\* a run of decimal digits as int() and float() accept it: digits, with
\* single underscores between digits only
ValidDigitRun(r) ==
  /\ Len(r) > 0
  /\ \A i \in 1..Len(r) : r[i] \in Digits \cup {"_"}
  /\ r[1] \in Digits /\ r[Len(r)] \in Digits
  /\ \A i \in 1..(Len(r) - 1) : ~(r[i] = "_" /\ r[i + 1] = "_")

RECURSIVE NatOf(_)
NatOf(r) ==
  IF Len(r) = 0 THEN 0
  ELSE IF r[Len(r)] = "_" THEN NatOf(Slice(r, 1, Len(r) - 1))
  ELSE NatOf(Slice(r, 1, Len(r) - 1)) * 10 + DigitVal(r[Len(r)])

HasSign(s) == Len(s) > 0 /\ s[1] \in {"+", "-"}

Unsigned(s) == IF HasSign(s) THEN Tail(s) ELSE s

SignOf(s) == IF Len(s) > 0 /\ s[1] = "-" THEN -1 ELSE 1

\* int(value) succeeds: blanks stripped, an optional sign, a digit run
IsIntLiteral(s) == ValidDigitRun(Unsigned(Strip(s)))

\* int(value)
IntOf(s) == SignOf(Strip(s)) * NatOf(Unsigned(Strip(s)))

\* the digits of a run, underscores dropped
RECURSIVE PlainDigits(_)
PlainDigits(r) ==
  IF Len(r) = 0 THEN <<>>
  ELSE IF r[1] = "_" THEN PlainDigits(Tail(r))
  ELSE <<r[1]>> \o PlainDigits(Tail(r))

RECURSIVE Normalise(_, _)
Normalise(m, e) ==
  IF m = 0 THEN <<0, 0>>
  ELSE IF m % 10 = 0 THEN Normalise(m \div 10, e + 1)
  ELSE <<m, e>>

\* the mantissa of a float literal: digits [. digits] or . digits
MantissaParts(m) == split(m, ".")

ValidMantissa(m) ==
  LET p == MantissaParts(m) IN
    \/ Len(p) = 1 /\ ValidDigitRun(p[1])
    \/ /\ Len(p) = 2
       /\ Len(p[1]) > 0 \/ Len(p[2]) > 0
       /\ Len(p[1]) = 0 \/ ValidDigitRun(p[1])
       /\ Len(p[2]) = 0 \/ ValidDigitRun(p[2])

ExpPos(b) == IF Positions(b, "e") = {} THEN 0
             ELSE CHOOSE i \in Positions(b, "e") : \A j \in Positions(b, "e") : i <= j

\* float(value) succeeds on: nan, inf, infinity (any case), or a decimal
\* literal with an optional exponent; blanks stripped, an optional sign
IsFloatLiteral(s) ==
  LET b == Unsigned(Lower(Strip(s)))
      x == ExpPos(b)
  IN  \/ b \in {<<"n", "a", "n">>, <<"i", "n", "f">>,
                <<"i", "n", "f", "i", "n", "i", "t", "y">>}
      \/ x = 0 /\ ValidMantissa(b)
      \/ /\ x > 0
         /\ ValidMantissa(Slice(b, 1, x - 1))
         /\ ValidDigitRun(Unsigned(Slice(b, x + 1, Len(b))))

\* float(value)
FloatOf(s) ==
  LET st == Lower(Strip(s))
      b == Unsigned(st)
      sg == SignOf(st)
      x == ExpPos(b)
      mant == IF x = 0 THEN b ELSE Slice(b, 1, x - 1)
      p == MantissaParts(mant)
      frac == IF Len(p) = 2 THEN PlainDigits(p[2]) ELSE <<>>
      ex == IF x = 0 THEN 0
            ELSE SignOf(Slice(b, x + 1, Len(b))) * NatOf(Unsigned(Slice(b, x + 1, Len(b))))
      n == Normalise(sg * NatOf(PlainDigits(p[1]) \o frac), ex - Len(frac))
  IN  IF b = <<"n", "a", "n">> THEN FloatV("nan", 0, 0)
      ELSE IF b \in {<<"i", "n", "f">>, <<"i", "n", "f", "i", "n", "i", "t", "y">>}
           THEN FloatV(IF sg = 1 THEN "inf" ELSE "-inf", 0, 0)
      ELSE FloatV("fin", n[1], n[2])

(* ----------------------------- the defaults ---------------------------- *)

DefaultGasLimit == 2000000

InfuraUrl(net) == <<net, ".", "infura", ".", "io/v3/", "YOUR_INFURA_PROJECT_ID">>

DefaultRpcUrls ==
  DictV((<<"mainnet">> :> StrV(InfuraUrl("https://mainnet")))
     @@ (<<"goerli">> :> StrV(InfuraUrl("https://goerli")))
     @@ (<<"sepolia">> :> StrV(InfuraUrl("https://sepolia"))))

DEFAULT_CONFIG ==
  DictV((<<"default_network">> :> StrV(<<"mainnet">>))
     @@ (<<"default_wallet_alias">> :> NullV)
     @@ (<<"default_gas_limit">> :> IntV(DefaultGasLimit))
     @@ (<<"default_rpc_urls">> :> DefaultRpcUrls)
     @@ (<<"custom_networks">> :> EmptyDict)
     @@ (<<"etherscan_api_key">> :> NullV))

(* ------------------------- json.dump / json.load ----------------------- *)

\* a token: its kind k, the symbols s of a string or literal, the numbers n
Tok(k, s, n) == [s |-> s, n |-> n, k |-> k]

Punct(c) == Tok("punct", <<c>>, <<>>)

StrTok(s) == Tok("str", s, <<>>)

\* the members of a set of keys in one fixed order
RECURSIVE KeySeq(_)
KeySeq(S) ==
  IF S = {} THEN <<>>
  ELSE LET k == CHOOSE x \in S : TRUE IN <<k>> \o KeySeq(S \ {k})

\* a writer that quotes every scalar
ScalarTok_quoting(x) ==
  CASE x.t = "str" -> StrTok(x.s)
    [] x.t = "int" -> StrTok(<<"int">>)
    [] x.t = "float" -> StrTok(<<"float">>)
    [] x.t = "bool" -> StrTok(IF x.n = <<1>> THEN <<"True">> ELSE <<"False">>)
    [] OTHER -> StrTok(<<"None">>)

\* the token a scalar is written as: a string quoted, a number as its
\* digits, True / False / None as the literals true / false / null
ScalarTok(x) ==
  CASE x.t = "str" -> StrTok(x.s)
    [] x.t = "int" -> Tok("int", <<>>, x.n)
    [] x.t = "float" -> Tok("float", x.s, x.n)
    [] x.t = "bool" -> Tok("lit", IF x.n = <<1>> THEN <<"true">> ELSE <<"false">>, <<>>)
    [] OTHER -> Tok("lit", <<"null">>, <<>>)

\* json.dump(config_data, f, indent=2): the text written, as tokens
RECURSIVE json_dump(_), DumpMembers(_, _)
json_dump(x) ==
  IF IsDict(x)
  THEN <<Punct("{")>> \o DumpMembers(x, KeySeq(DOMAIN x.d)) \o <<Punct("}")>>
  ELSE <<ScalarTok(x)>>
DumpMembers(d, ks) ==
  IF Len(ks) = 0 THEN <<>>
  ELSE <<StrTok(ks[1]), Punct(":")>> \o json_dump(d.d[ks[1]])
       \o (IF Len(ks) > 1 THEN <<Punct(",")>> ELSE <<>>)
       \o DumpMembers(d, Tail(ks))

ParseFail == [ok |-> FALSE, val |-> Nothing, next |-> 0]

IsPunct(toks, i, c) == i <= Len(toks) /\ toks[i] = Punct(c)

\* the JSON value that starts at token i, and the position after it
RECURSIVE ParseValue(_, _), ParseMembers(_, _, _)
ParseValue(toks, i) ==
  IF i > Len(toks) THEN ParseFail
  ELSE LET tk == toks[i] IN
    CASE tk.k = "str" -> [ok |-> TRUE, val |-> StrV(tk.s), next |-> i + 1]
      [] tk.k = "int" -> [ok |-> TRUE, val |-> IntV(tk.n[1]), next |-> i + 1]
      [] tk.k = "float" ->
           [ok |-> TRUE, val |-> FloatV(tk.s[1], tk.n[1], tk.n[2]), next |-> i + 1]
      [] tk.k = "lit" ->
           [ok |-> TRUE,
            val |-> IF tk.s = <<"null">> THEN NullV ELSE BoolV(tk.s = <<"true">>),
            next |-> i + 1]
      [] tk = Punct("{") ->
           IF IsPunct(toks, i + 1, "}")
           THEN [ok |-> TRUE, val |-> EmptyDict, next |-> i + 2]
           ELSE ParseMembers(toks, i + 1, EmptyDict)
      [] OTHER -> ParseFail
ParseMembers(toks, i, acc) ==
  IF ~(i <= Len(toks) /\ toks[i].k = "str" /\ IsPunct(toks, i + 1, ":"))
  THEN ParseFail
  ELSE LET m == ParseValue(toks, i + 2) IN
    IF ~m.ok THEN ParseFail
    ELSE LET d == DictSet(acc, toks[i].s, m.val) IN
      IF IsPunct(toks, m.next, "}") THEN [ok |-> TRUE, val |-> d, next |-> m.next + 1]
      ELSE IF IsPunct(toks, m.next, ",") THEN ParseMembers(toks, m.next + 1, d)
      ELSE ParseFail

\* json.load(f): the whole text must be one JSON value (else JSONDecodeError)
json_load(toks) ==
  LET r == ParseValue(toks, 1) IN
    IF r.ok /\ r.next = Len(toks) + 1 THEN r ELSE ParseFail

(* ------------------------------ the file ------------------------------- *)

\* CONFIG_FILE does not exist
Absent == [exists |-> FALSE, text |-> <<>>]

\* CONFIG_FILE holds this text
File(toks) == [exists |-> TRUE, text |-> toks]

Msg(stream, text, arg) == [text |-> text, stream |-> stream, arg |-> arg]

SaveError == Msg("stderr", "Error: Could not save config file", <<>>)

LoadWarning == Msg("stderr", "Warning: Could not load config file. Using defaults.", <<>>)

\* a save that opens the file for appending
save_config_append(d, f, config_data) ==
  IF f = "unwritable"
  THEN [disk |-> d, written |-> FALSE, msgs |-> <<SaveError>>]
  ELSE [disk |-> File(d.text \o json_dump(config_data)), written |-> TRUE, msgs |-> <<>>]

\* save_config(config_data): the file after the call, whether it was
\* written, and what was echoed.  An IOError (fs = "unwritable": the
\* directory cannot be made or the file cannot be opened for writing) is
\* caught and reported; nothing is raised to the caller.
save_config(d, f, config_data) ==
  IF f = "unwritable"
  THEN [disk |-> d, written |-> FALSE, msgs |-> <<SaveError>>]
  ELSE [disk |-> File(json_dump(config_data)), written |-> TRUE, msgs |-> <<>>]

\* load_config that returns the defaults for a missing file without
\* writing them
load_config_no_create(d, f) ==
  IF ~d.exists
  THEN [disk |-> d, written |-> FALSE, msgs |-> <<>>,
        config |-> DEFAULT_CONFIG, saved |-> <<>>, alias |-> "global"]
  ELSE IF f = "unreadable" \/ ~json_load(d.text).ok
  THEN [disk |-> d, written |-> FALSE, msgs |-> <<LoadWarning>>,
        config |-> DEFAULT_CONFIG, saved |-> <<>>, alias |-> "copy"]
  ELSE [disk |-> d, written |-> FALSE, msgs |-> <<>>,
        config |-> json_load(d.text).val, saved |-> <<>>, alias |-> "none"]

\* load_config that replaces a file it cannot read by the defaults
load_config_overwrite(d, f) ==
  IF ~d.exists \/ f = "unreadable" \/ ~json_load(d.text).ok
  THEN LET sv == save_config(d, f, DEFAULT_CONFIG) IN
         [disk |-> sv.disk, written |-> sv.written,
          msgs |-> (IF d.exists THEN <<LoadWarning>> ELSE <<>>) \o sv.msgs,
          config |-> DEFAULT_CONFIG, saved |-> <<DEFAULT_CONFIG>>, alias |-> "global"]
  ELSE [disk |-> d, written |-> FALSE, msgs |-> <<>>,
        config |-> json_load(d.text).val, saved |-> <<>>, alias |-> "none"]

\* a load that writes back the document it has read
load_config_writing_back(d, f) ==
  LET parsed == json_load(d.text) IN
  IF ~d.exists
  THEN LET sv == save_config(d, f, DEFAULT_CONFIG) IN
         [disk |-> sv.disk, written |-> sv.written, msgs |-> sv.msgs,
          config |-> DEFAULT_CONFIG, saved |-> <<DEFAULT_CONFIG>>, alias |-> "global"]
  ELSE IF f = "unreadable" \/ ~parsed.ok
  THEN [disk |-> d, written |-> FALSE, msgs |-> <<LoadWarning>>,
        config |-> DEFAULT_CONFIG, saved |-> <<>>, alias |-> "copy"]
  ELSE LET sv == save_config(d, f, parsed.val) IN
         [disk |-> sv.disk, written |-> sv.written, msgs |-> sv.msgs,
          config |-> parsed.val, saved |-> <<parsed.val>>, alias |-> "none"]

\* a load that falls back to an empty document, not to the defaults
load_config_empty_fallback(d, f) ==
  LET parsed == json_load(d.text) IN
  IF ~d.exists
  THEN LET sv == save_config(d, f, DEFAULT_CONFIG) IN
         [disk |-> sv.disk, written |-> sv.written, msgs |-> sv.msgs,
          config |-> DEFAULT_CONFIG, saved |-> <<DEFAULT_CONFIG>>, alias |-> "global"]
  ELSE IF f = "unreadable" \/ ~parsed.ok
  THEN [disk |-> d, written |-> FALSE, msgs |-> <<LoadWarning>>,
        config |-> EmptyDict, saved |-> <<>>, alias |-> "none"]
  ELSE [disk |-> d, written |-> FALSE, msgs |-> <<>>,
        config |-> parsed.val, saved |-> <<>>, alias |-> "none"]

\* load_config(): the document returned, the file after the call, what was
\* echoed, the documents handed to save_config, and how the returned
\* document is related to the module's DEFAULT_CONFIG object ("global": it
\* is that object; "copy": DEFAULT_CONFIG.copy(), whose nested dicts are
\* still the global's; "none": a fresh document from the file).
load_config(d, f) ==
  LET parsed == json_load(d.text) IN
  IF ~d.exists
  THEN LET sv == save_config(d, f, DEFAULT_CONFIG) IN
         [disk |-> sv.disk, written |-> sv.written, msgs |-> sv.msgs,
          config |-> DEFAULT_CONFIG, saved |-> <<DEFAULT_CONFIG>>, alias |-> "global"]
  ELSE IF f = "unreadable" \/ ~parsed.ok
  THEN [disk |-> d, written |-> FALSE, msgs |-> <<LoadWarning>>,
        config |-> DEFAULT_CONFIG, saved |-> <<>>, alias |-> "copy"]
  ELSE [disk |-> d, written |-> FALSE, msgs |-> <<>>,
        config |-> parsed.val, saved |-> <<>>, alias |-> "none"]

(* ------------------------------ config set ----------------------------- *)

\* the heuristic without value.lower()
coerce_case_sensitive(value) ==
  IF value = <<"t", "r", "u", "e">> THEN BoolV(TRUE)
  ELSE IF value = <<"f", "a", "l", "s", "e">> THEN BoolV(FALSE)
  ELSE IF value = <<"n", "o", "n", "e">> \/ value = <<"n", "u", "l", "l">> THEN NullV
  ELSE IF IsIntLiteral(value) THEN IntV(IntOf(value))
  ELSE IF IsFloatLiteral(value) THEN FloatOf(value)
  ELSE StrV(value)

\* the type heuristic of set_config_value
coerce(value) ==
  IF Lower(value) = <<"t", "r", "u", "e">> THEN BoolV(TRUE)
  ELSE IF Lower(value) = <<"f", "a", "l", "s", "e">> THEN BoolV(FALSE)
  ELSE IF Lower(value) = <<"n", "o", "n", "e">> \/ Lower(value) = <<"n", "u", "l", "l">>
       THEN NullV
  ELSE IF IsIntLiteral(value) THEN IntV(IntOf(value))
  ELSE IF IsFloatLiteral(value) THEN FloatOf(value)
  ELSE StrV(value)

\* the loop with the isinstance(..., dict) test left out
RECURSIVE WalkParents_membership_only(_, _, _)
WalkParents_membership_only(cur, keys, i) ==
  IF i > Len(keys) - 1 THEN [status |-> "ok", at |-> i, level |-> cur]
  ELSE IF ~IsDict(cur) THEN [status |-> "crash", at |-> i, level |-> cur]
  ELSE IF keys[i] \notin DOMAIN cur.d THEN [status |-> "invalid", at |-> i, level |-> cur]
  ELSE WalkParents_membership_only(cur.d[keys[i]], keys, i + 1)

\* the loop over keys[:-1], from index i at current_level = cur:
\* "ok" with the dict the final key goes into reached, "invalid" at the
\* first part that is missing or no dict, "crash" where Python raises a
\* TypeError (`in` on a number, bool or None; indexing a str by a str)
RECURSIVE WalkParents(_, _, _)
WalkParents(cur, keys, i) ==
  IF i > Len(keys) - 1 THEN [status |-> "ok", at |-> i, level |-> cur]
  ELSE LET k_part == keys[i] IN
    CASE cur.t = "dict" ->
           IF k_part \notin DOMAIN cur.d \/ ~IsDict(cur.d[k_part])
           THEN [status |-> "invalid", at |-> i, level |-> cur]
           ELSE WalkParents(cur.d[k_part], keys, i + 1)
      [] cur.t = "str" ->
           IF ~IsSubstring(k_part, cur.s)
           THEN [status |-> "invalid", at |-> i, level |-> cur]
           ELSE [status |-> "crash", at |-> i, level |-> cur]
      [] OTHER -> [status |-> "crash", at |-> i, level |-> cur]

\* an assignment that leaves nothing but the final key in the document
Assign_dropping_the_rest(d, keys, x) == DictV(keys[Len(keys)] :> x)

\* the final key assigned in config itself, not in current_level
Assign_toplevel(d, keys, x) == DictSet(d, keys[Len(keys)], x)

\* config[keys[1]]...[keys[n]] = x, every parent being a dict
RECURSIVE Assign(_, _, _)
Assign(d, keys, x) ==
  IF Len(keys) = 1 THEN DictSet(d, keys[1], x)
  ELSE DictSet(d, keys[1], Assign(d.d[keys[1]], Tail(keys), x))

\* what one invocation did: the command and its arguments, the file before
\* and after, what was echoed, the exit status, whether it ended in an
\* uncaught exception, the value it produced, the document load_config
\* returned (loaded) and the one in memory at the end (config), the calls of
\* load_config, the documents handed to save_config, and whether the last
\* save wrote the file
Outcome(cmd, key, value, before, after, msgs, exit, crashed, result, loaded, config, loads, saved, written) ==
  [disk |-> after, written |-> written, msgs |-> msgs, config |-> config, saved |-> saved,
   value |-> value, cmd |-> cmd, key |-> key, before |-> before,
   exit |-> exit, crashed |-> crashed, result |-> result, loaded |-> loaded,
   loads |-> loads]

InvalidPath(prefix) ==
  <<Msg("stderr", "Error: Key path is not a valid dictionary in config.", prefix),
    Msg("stdout", "You might need to set up the parent structure first or the key is invalid.", <<>>)>>

Updated(key) ==
  <<Msg("stdout", "Configuration updated", key),
    Msg("stdout", "Config file location", <<>>)>>

\* a set that assigns the key in the built-in defaults, not in the
\* document it has loaded
set_config_value_from_defaults(d, f, key, value) ==
  LET L == load_config(d, f)
      keys == split(key, ".")
      W == WalkParents(DEFAULT_CONFIG, keys, 1)
      parsed_value == coerce(value)
  IN
    IF W.status # "ok" \/ ~IsDict(W.level)
    THEN Outcome("set", key, value, d, L.disk,
                 L.msgs \o InvalidPath(join(Slice(keys, 1, W.at))), 0, FALSE,
                 Nothing, L.config, L.config, 1, L.saved, L.written)
    ELSE LET config == Assign(DEFAULT_CONFIG, keys, parsed_value)
             sv == save_config(L.disk, f, config)
         IN  Outcome("set", key, value, d, sv.disk,
                     L.msgs \o sv.msgs \o Updated(key), 0, FALSE,
                     parsed_value, L.config, config, 1, L.saved \o <<config>>, sv.written)

\* `ethcli config set key value`
set_config_value(d, f, key, value) ==
  LET L == load_config(d, f)
      keys == split(key, ".")
      W == WalkParents(L.config, keys, 1)
      parsed_value == coerce(value)
  IN
    IF W.status = "invalid"
    THEN Outcome("set", key, value, d, L.disk,
                 L.msgs \o InvalidPath(join(Slice(keys, 1, W.at))), 0, FALSE,
                 Nothing, L.config, L.config, 1, L.saved, L.written)
    ELSE IF W.status = "crash" \/ ~IsDict(W.level)
    THEN Outcome("set", key, value, d, L.disk, L.msgs, 1, TRUE,
                 Nothing, L.config, L.config, 1, L.saved, L.written)
    ELSE LET config == Assign(L.config, keys, parsed_value)
             sv == save_config(L.disk, f, config)
         IN  Outcome("set", key, value, d, sv.disk,
                     L.msgs \o sv.msgs \o Updated(key), 0, FALSE,
                     parsed_value, L.config, config, 1, L.saved \o <<config>>, sv.written)

(* ------------------------------ config get ----------------------------- *)

\* the loop with every failed lookup taken for a missing key
RECURSIVE Traverse_keyerror_only(_, _, _)
Traverse_keyerror_only(cur, keys, i) ==
  IF i > Len(keys) THEN [val |-> cur, status |-> "ok"]
  ELSE IF ~IsDict(cur) \/ keys[i] \notin DOMAIN cur.d
       THEN [val |-> Nothing, status |-> "KeyError"]
  ELSE Traverse_keyerror_only(cur.d[keys[i]], keys, i + 1)

\* the loop `current_level = current_level[k_part]` over keys, from index
\* i: "ok" with the value reached, "KeyError" at a part a dict does not
\* hold, "TypeError" at a part looked up in anything that is no dict
RECURSIVE Traverse(_, _, _)
Traverse(cur, keys, i) ==
  IF i > Len(keys) THEN [val |-> cur, status |-> "ok"]
  ELSE IF ~IsDict(cur) THEN [val |-> Nothing, status |-> "TypeError"]
  ELSE IF keys[i] \notin DOMAIN cur.d THEN [val |-> Nothing, status |-> "KeyError"]
  ELSE Traverse(cur.d[keys[i]], keys, i + 1)

\* the message echoed without err=True
KeyNotFound_stdout(key) == Msg("stdout", "Error: Key not found in configuration.", key)

KeyNotFound(key) == Msg("stderr", "Error: Key not found in configuration.", key)

NotATraversableNode(key) ==
  Msg("stderr", "Error: Cannot access sub-key. It might not be a dictionary.", key)

\* `ethcli config get [key]` (no key, or an empty one: the whole document)
get_config_value(d, f, key) ==
  LET L == load_config(d, f)
      T == Traverse(L.config, split(key, "."), 1)
  IN
    IF key = <<>>
    THEN Outcome("get", key, <<>>, d, L.disk,
                 L.msgs \o <<Msg("stdout", "Current configuration:", <<>>),
                             Msg("stdout", "Config file location", <<>>)>>,
                 0, FALSE, L.config, L.config, L.config, 1, L.saved, L.written)
    ELSE Outcome("get", key, <<>>, d, L.disk,
                 L.msgs \o <<CASE T.status = "ok" -> Msg("stdout", "key = value", key)
                               [] T.status = "KeyError" -> KeyNotFound(key)
                               [] OTHER -> NotATraversableNode(key)>>,
                 0, FALSE, T.val, L.config, L.config, 1, L.saved, L.written)

(* ----------------------------- config reset ---------------------------- *)

\* click.confirmation_option: the callback runs on --yes or on the answer
\* y to the prompt; any other answer, or no input, aborts with exit 1
Confirmations == {"--yes", "y", "n", "eof"}

\* a confirmation that only an explicit n refuses
Confirmed_unless_declined(confirm) == confirm # "n"

Confirmed(confirm) == confirm \in {"--yes", "y"}

\* a reset that puts the defaults over the document of the file and so
\* keeps the keys the user added
reset_config_keep_user_keys(d, f, confirm) ==
  LET L == load_config(d, f)
      merged == IF IsDict(L.config) THEN DictV(DEFAULT_CONFIG.d @@ L.config.d)
                ELSE DEFAULT_CONFIG
      sv == save_config(L.disk, f, merged)
  IN
    IF ~Confirmed(confirm)
    THEN Outcome("reset", <<>>, <<confirm>>, d, d, <<Msg("stderr", "Aborted!", <<>>)>>,
                 1, FALSE, Nothing, Nothing, Nothing, 0, <<>>, FALSE)
    ELSE Outcome("reset", <<>>, <<confirm>>, d, sv.disk,
                 sv.msgs \o <<Msg("stdout", "Configuration has been reset to defaults.", <<>>),
                              Msg("stdout", "Config file location", <<>>)>>,
                 0, FALSE, merged, L.config, merged, 1, <<merged>>, sv.written)

\* `ethcli config reset`
reset_config(d, f, confirm) ==
  IF ~Confirmed(confirm)
  THEN Outcome("reset", <<>>, <<confirm>>, d, d, <<Msg("stderr", "Aborted!", <<>>)>>,
               1, FALSE, Nothing, Nothing, Nothing, 0, <<>>, FALSE)
  ELSE LET sv == save_config(d, f, DEFAULT_CONFIG) IN
         Outcome("reset", <<>>, <<confirm>>, d, sv.disk,
                 sv.msgs \o <<Msg("stdout", "Configuration has been reset to defaults.", <<>>),
                              Msg("stdout", "Config file location", <<>>)>>,
                 0, FALSE, DEFAULT_CONFIG, Nothing, DEFAULT_CONFIG, 0, <<DEFAULT_CONFIG>>,
                 sv.written)

(* ------------------------------ config path ---------------------------- *)

\* a path command that loads the configuration first
config_path_loading(d) ==
  LET L == load_config(d, "ok") IN
    Outcome("path", <<>>, <<>>, d, L.disk,
            L.msgs \o <<Msg("stdout", "Configuration file is located at", <<>>)>>,
            0, FALSE, Nothing, L.config, L.config, 1, L.saved, L.written)

\* `ethcli config path`
config_path(d) ==
  Outcome("path", <<>>, <<>>, d, d,
          <<Msg("stdout", "Configuration file is located at", <<>>)>>,
          0, FALSE, Nothing, Nothing, Nothing, 0, <<>>, FALSE)

(* ----------------------------- wallet delete --------------------------- *)

\* what one invocation of a command outside the config group did
CliOutcome(cmd, arg, input, msgs, exit) ==
  [arg |-> arg, msgs |-> msgs, cmd |-> cmd, exit |-> exit, input |-> input]

\* no such command has run
NoCli == CliOutcome("none", <<>>, <<>>, <<>>, 0)

DeletePrompt(alias) == Msg("stdout", "Are you sure you want to delete wallet? [y/N]", alias)

\* click.confirm(prompt, default=False, abort=True) on the lines stdin
\* holds: each round prints the prompt and reads a line; y / yes and
\* n / no (any case, blanks stripped) answer, an empty line takes the
\* default (no), anything else prints "Error: invalid input" and asks
\* again; the end of the input aborts.  rv is "yes", "no" or "eof".
RECURSIVE click_confirm(_, _)
click_confirm(prompt, lines) ==
  IF lines = <<>> THEN [msgs |-> <<prompt>>, rv |-> "eof"]
  ELSE LET value == Strip(Lower(Head(lines))) IN
         IF value \in {<<"y">>, <<"y", "e", "s">>} THEN [msgs |-> <<prompt>>, rv |-> "yes"]
         ELSE IF value \in {<<"n">>, <<"n", "o">>} THEN [msgs |-> <<prompt>>, rv |-> "no"]
         ELSE IF value = <<>> THEN [msgs |-> <<prompt>>, rv |-> "no"]
         ELSE LET r == click_confirm(prompt, Tail(lines)) IN
                [msgs |-> <<prompt, Msg("stdout", "Error: invalid input", <<>>)>> \o r.msgs,
                 rv |-> r.rv]

\* a delete that asks and then deletes whatever the answer was
delete_wallet_unconfirmed(alias, lines) ==
  LET c == click_confirm(DeletePrompt(alias), lines) IN
    CliOutcome("wallet delete", alias, lines,
               c.msgs \o <<Msg("stdout", "Deleting wallet", alias),
                           Msg("stdout", "Wallet deleted successfully.", alias)>>, 0)

\* `ethcli wallet delete <alias>`
delete_wallet(alias, lines) ==
  LET c == click_confirm(DeletePrompt(alias), lines) IN
    IF c.rv = "yes"
    THEN CliOutcome("wallet delete", alias, lines,
                    c.msgs \o <<Msg("stdout", "Deleting wallet", alias),
                                Msg("stdout", "Wallet deleted successfully.", alias)>>, 0)
    ELSE CliOutcome("wallet delete", alias, lines,
                    c.msgs \o <<Msg("stderr", "Aborted!", <<>>)>>, 1)

(* ----------------------------- wallet import --------------------------- *)

\* a click option of type str: not given (None), or given with a value
NotGiven == [s |-> <<>>, given |-> FALSE]

Given(s) == [s |-> s, given |-> TRUE]

\* `if option:` is true for a given, non-empty string
Truthy(opt) == opt.given /\ opt.s # <<>>

\* s[:4] and s[-4:]
First4(s) == Slice(s, 1, IF Len(s) < 4 THEN Len(s) ELSE 4)

Last4(s) == Slice(s, IF Len(s) < 4 THEN 1 ELSE Len(s) - 3, Len(s))

\* the names of the options that were given, and their values
OptionNames(private_key_hex, mnemonic_phrase) ==
  (IF private_key_hex.given THEN <<"--private-key">> ELSE <<>>)
  \o (IF mnemonic_phrase.given THEN <<"--mnemonic">> ELSE <<>>)

PleaseProvide ==
  Msg("stderr", "Please provide either --private-key or --mnemonic to import a wallet.", <<>>)

ImportedOk == Msg("stdout", "Wallet imported successfully.", <<>>)

\* an import whose else branch does not return
import_wallet_falling_through(private_key_hex, mnemonic_phrase) ==
  CliOutcome("wallet import", OptionNames(private_key_hex, mnemonic_phrase),
             <<private_key_hex.s, mnemonic_phrase.s>>,
             (IF Truthy(private_key_hex)
              THEN <<Msg("stdout", "Importing wallet using private key",
                         First4(private_key_hex.s) \o <<"...">> \o Last4(private_key_hex.s))>>
              ELSE IF Truthy(mnemonic_phrase)
              THEN LET words == split(mnemonic_phrase.s, " ") IN
                     <<Msg("stdout", "Importing wallet using mnemonic",
                           words[1] \o <<" ... ">> \o words[Len(words)])>>
              ELSE <<PleaseProvide>>) \o <<ImportedOk>>,
             0)

\* `ethcli wallet import [--private-key K] [--mnemonic M]`
import_wallet(private_key_hex, mnemonic_phrase) ==
  CliOutcome("wallet import", OptionNames(private_key_hex, mnemonic_phrase),
             <<private_key_hex.s, mnemonic_phrase.s>>,
             IF Truthy(private_key_hex)
             THEN <<Msg("stdout", "Importing wallet using private key",
                        First4(private_key_hex.s) \o <<"...">> \o Last4(private_key_hex.s)),
                    ImportedOk>>
             ELSE IF Truthy(mnemonic_phrase)
             THEN LET words == split(mnemonic_phrase.s, " ") IN
                    <<Msg("stdout", "Importing wallet using mnemonic",
                          words[1] \o <<" ... ">> \o words[Len(words)]),
                      ImportedOk>>
             ELSE <<PleaseProvide>>,
             0)

(* ----------------------------- help examples --------------------------- *)

\* the keys of the examples dict, in its order, spelled letter by letter
GroupOrder ==
  << <<"g", "e", "n", "e", "r", "a", "l">>,
     <<"n", "e", "t", "w", "o", "r", "k">>,
     <<"w", "a", "l", "l", "e", "t">>,
     <<"t", "x">>,
     <<"c", "o", "n", "t", "r", "a", "c", "t">>,
     <<"a", "c", "c", "o", "u", "n", "t">>,
     <<"n", "f", "t">>,
     <<"c", "o", "n", "f", "i", "g">> >>

General == GroupOrder[1]

\* len(examples[key])
ExampleCount(key) ==
  CASE key = GroupOrder[1] -> 6 [] key = GroupOrder[2] -> 8 [] key = GroupOrder[3] -> 10
    [] key = GroupOrder[4] -> 6 [] key = GroupOrder[5] -> 8 [] key = GroupOrder[6] -> 10
    [] key = GroupOrder[7] -> 6 [] OTHER -> 6

\* the i-th line of examples[key]
ExampleLine(key, i) == Msg("stdout", "example", key \o <<ToString(i)>>)

\* the first n lines of examples[key], each echoed
ExampleLines(key, n) == [i \in 1..n |-> ExampleLine(key, i)]

\* str.startswith
StartsWith(str, prefix) ==
  Len(prefix) <= Len(str) /\ Slice(str, 1, Len(prefix)) = prefix

SectionHeader(key) == Msg("stdout", "--- Examples for ---", key)

NoSpecificExamples(specific_command) ==
  Msg("stdout", "No specific examples found. Showing general examples.", specific_command)

\* a loop that matches only the key that equals the command
RECURSIVE MatchedSections_equal_only(_, _)
MatchedSections_equal_only(specific_command, i) ==
  IF i > Len(GroupOrder) THEN <<>>
  ELSE LET key == GroupOrder[i] IN
         (IF key = specific_command
          THEN <<SectionHeader(key)>> \o ExampleLines(key, ExampleCount(key))
          ELSE <<>>) \o MatchedSections_equal_only(specific_command, i + 1)

\* the loop over examples.items() of the branch with a command, from the
\* i-th key on: the sections of the keys that match
RECURSIVE MatchedSections(_, _)
MatchedSections(specific_command, i) ==
  IF i > Len(GroupOrder) THEN <<>>
  ELSE LET key == GroupOrder[i] IN
         (IF key = specific_command \/ StartsWith(specific_command, key)
          THEN <<SectionHeader(key)>> \o ExampleLines(key, ExampleCount(key))
          ELSE <<>>) \o MatchedSections(specific_command, i + 1)

\* the loop of the branch without a command, from the i-th key on: the
\* first three examples of every group but general, and how many more
RECURSIVE Overview(_)
Overview(i) ==
  IF i > Len(GroupOrder) THEN <<>>
  ELSE LET key == GroupOrder[i] IN
         (IF key = General THEN <<>>
          ELSE <<Msg("stdout", "--- Group Examples ---", key)>>
               \o (IF ExampleCount(key) > 3
                    THEN ExampleLines(key, 3)
                         \o <<Msg("stdout", "(... and more ...)",
                                   key \o <<ToString(ExampleCount(key) - 3)>>)>>
                    ELSE ExampleLines(key, ExampleCount(key))))
         \o Overview(i + 1)

\* `ethcli help examples [--command X]`
show_examples(specific_command) ==
  CliOutcome("help examples",
             IF specific_command.given THEN <<"--command">> ELSE <<>>,
             <<specific_command.s>>,
             IF Truthy(specific_command)
             THEN LET sections == MatchedSections(specific_command.s, 1) IN
                    IF sections # <<>> THEN sections
                    ELSE <<NoSpecificExamples(specific_command.s)>>
                         \o ExampleLines(General, ExampleCount(General))
             ELSE <<Msg("stdout", "--- Common ethcli Usage Examples ---", <<>>),
                    Msg("stdout", "For detailed help on any command", <<>>)>>
                  \o Overview(1)
                  \o <<Msg("stdout", "--- General Help Examples ---", <<>>)>>
                  \o ExampleLines(General, ExampleCount(General)),
             0)

(* ------------------------------ account set --------------------------- *)

\* f"'{value}'": the value between two quotes, as it is
Quoted(value) == <<"'">> \o value \o <<"'">>

\* repr() of a setting: None, or the str between quotes (the strs the
\* config module can hold in the model have no quote and no backslash)
Repr(v) == IF v.given THEN Quoted(v.s) ELSE <<"None">>

\* what Python makes of the right-hand side of an assignment of config.py:
\* None, a str literal, or a SyntaxError.  A quote inside the two outer
\* quotes ends the literal early and leaves text Python cannot parse (the
\* values of the model hold at most one quote).
PyParse(text) ==
  IF text = <<"None">> THEN [ok |-> TRUE, val |-> NotGiven]
  ELSE IF /\ Len(text) >= 2 /\ text[1] = "'" /\ text[Len(text)] = "'"
          /\ \A i \in 2..(Len(text) - 1) : text[i] # "'"
       THEN [ok |-> TRUE, val |-> Given(Slice(text, 2, Len(text) - 1))]
       ELSE [ok |-> FALSE, val |-> NotGiven]

\* ethcli/config.py: the right-hand sides of its three assignments
ConfigPy(eth_address, node_api_key, etherscan_api_key) ==
  [ETH_ADDRESS |-> eth_address, NODE_API_KEY |-> node_api_key,
   ETHERSCAN_API_KEY |-> etherscan_api_key]

NothingConfigured == ConfigPy(<<"None">>, <<"None">>, <<"None">>)

SettingNames == {"ETH_ADDRESS", "NODE_API_KEY", "ETHERSCAN_API_KEY"}

\* `from ethcli import config` (and importlib.reload(config)) succeeds
Importable(file) == \A name \in SettingNames : PyParse(file[name]).ok

\* the config module after importing the file
Module(file) == [name \in SettingNames |-> PyParse(file[name]).val]

\* Web3.is_address on a str: 0x and forty hexadecimal digits
\* (one symbol stands for the forty digits)
is_address(value) ==
  /\ Len(value) = 2
  /\ value[1] = "0x"
  /\ value[2] \in {"52908400098527886e0f7030069857d2e4169ee7",
                   "de709f2102306220921060314715629080e2fb77"}

\* one line of save_config_to_file: the option's value between quotes
\* when the option is not None, else the repr() of the current setting
SettingLine(option, current) ==
  IF option.given THEN Quoted(option.s) ELSE Repr(current)

\* save_config_to_file: the file it writes, given the config module
save_config_to_file(module, eth_address, node_api_key, etherscan_api_key) ==
  ConfigPy(SettingLine(eth_address, module["ETH_ADDRESS"]),
           SettingLine(node_api_key, module["NODE_API_KEY"]),
           SettingLine(etherscan_api_key, module["ETHERSCAN_API_KEY"]))

AccountOptionNames(eth_address, node_api_key, etherscan_api_key) ==
  (IF eth_address.given THEN <<"--address">> ELSE <<>>)
  \o (IF node_api_key.given THEN <<"--nodekey">> ELSE <<>>)
  \o (IF etherscan_api_key.given THEN <<"--scankey">> ELSE <<>>)

SetOrNot(v) == IF Truthy(v) THEN <<"Set">> ELSE <<"Not set">>

\* `ethcli account set [--address A] [--nodekey N] [--scankey S]` in a
\* process that starts with config.py holding file: what the invocation
\* did, and config.py after it.  A config.py that cannot be imported ends
\* the process before the command runs.
set_config(file, eth_address, node_api_key, etherscan_api_key) ==
  LET arg == AccountOptionNames(eth_address, node_api_key, etherscan_api_key)
      input == <<eth_address.s, node_api_key.s, etherscan_api_key.s>>
      module == Module(file)
      written == save_config_to_file(module, eth_address, node_api_key, etherscan_api_key)
      reloaded == Module(written)
  IN
    IF ~Importable(file)
    THEN [file |-> file,
          out |-> CliOutcome("account set", arg, input,
                             <<Msg("stderr", "SyntaxError", <<>>)>>, 1)]
    ELSE IF ~eth_address.given /\ ~node_api_key.given /\ ~etherscan_api_key.given
    THEN [file |-> file,
          out |-> CliOutcome("account set", arg, input,
                   <<Msg("stdout", "No options provided. Use --address, --nodekey, or --scankey to set values.", <<>>),
                     Msg("stdout", "Current ETH Address",
                         IF Truthy(module["ETH_ADDRESS"])
                         THEN module["ETH_ADDRESS"].s ELSE <<"Not set">>),
                     Msg("stdout", "Current Node API Key", SetOrNot(module["NODE_API_KEY"])),
                     Msg("stdout", "Current Etherscan API Key",
                         SetOrNot(module["ETHERSCAN_API_KEY"]))>>,
                   0)]
    ELSE IF Truthy(eth_address) /\ ~is_address(eth_address.s)
    THEN [file |-> file,
          out |-> CliOutcome("account set", arg, input,
                             <<Msg("stderr", "Invalid Ethereum address format.", <<>>)>>, 0)]
    ELSE IF ~Importable(written)
    THEN [file |-> written,
          out |-> CliOutcome("account set", arg, input,
                             <<Msg("stderr", "Error saving configuration", <<>>)>>, 0)]
    ELSE [file |-> written,
          out |-> CliOutcome("account set", arg, input,
                   <<Msg("stdout", "Configuration saved successfully to ethcli/config.py.", <<>>)>>
                   \o (IF Truthy(eth_address)
                       THEN <<Msg("stdout", "ETH Address set to", reloaded["ETH_ADDRESS"].s)>>
                       ELSE <<>>)
                   \o (IF Truthy(node_api_key)
                       THEN <<Msg("stdout", "Node API Key has been set.", <<>>)>> ELSE <<>>)
                   \o (IF Truthy(etherscan_api_key)
                       THEN <<Msg("stdout", "Etherscan API Key has been set.", <<>>)>> ELSE <<>>),
                   0)]

(* ------------------------- the argparse entry point -------------------- *)

\* the names account_commands.py defines
AccountCommandsNames ==
  {"get_active_wallet_address", "account_group", "get_balance", "get_nonce",
   "list_tokens", "resolve_ens"}

\* the names network_commands.py defines
NetworkCommandsNames ==
  {"get_web3_instance", "get_latest_block", "get_gas_price", "register_network_commands"}

\* the two `from ... import ...` lines of eth_cli.py find their names
ImportsResolve ==
  /\ "register_account_commands" \in AccountCommandsNames
  /\ "register_network_commands" \in NetworkCommandsNames

ImportError ==
  Msg("stderr", "ImportError: cannot import name from account_commands",
      <<"register_account_commands">>)

\* str.strip()
RECURSIVE PyStrip(_)
PyStrip(s) ==
  IF Len(s) = 0 THEN s
  ELSE IF s[1] \in {" ", "\t", "\n", "\r"} THEN PyStrip(Tail(s))
  ELSE IF s[Len(s)] \in {" ", "\t", "\n", "\r"} THEN PyStrip(Slice(s, 1, Len(s) - 1))
  ELSE s

\* f.read() of a file opened in text mode: \r\n and \r are read as \n
RECURSIVE ReadText(_)
ReadText(text) ==
  IF Len(text) = 0 THEN text
  ELSE IF text[1] = "\r"
       THEN <<"\n">> \o ReadText(IF Len(text) >= 2 /\ text[2] = "\n"
                                 THEN Slice(text, 3, Len(text)) ELSE Tail(text))
       ELSE <<text[1]>> \o ReadText(Tail(text))

\* get_cached_address() / get_cached_node_url() on a cache file: None when
\* the file does not exist
get_cached(file) ==
  IF file.exists THEN Given(PyStrip(ReadText(file.text))) ELSE NotGiven

\* the two cache files
Cache(address, node_url) == [address |-> address, node_url |-> node_url]

\* `python eth_cli.py command ...` with the cache files c: value is the
\* positional of set_address / set_node_url, for any other command
\* getattr(args, 'address', None).  What the process did, and the cache files
\* after it.  The module's imports run before main().
main(c, command, value) ==
  IF ~ImportsResolve
  THEN [cache |-> c, out |-> CliOutcome(command, <<>>, <<value.s>>, <<ImportError>>, 1)]
  ELSE IF command = "set_address"
  THEN [cache |-> Cache(File(value.s), c.node_url),
        out |-> CliOutcome(command, <<>>, <<value.s>>,
                           <<Msg("call", "set_address", value.s),
                             Msg("stdout", "Ethereum address saved.", value.s)>>, 0)]
  ELSE IF command = "set_node_url"
  THEN [cache |-> Cache(c.address, File(value.s)),
        out |-> CliOutcome(command, <<>>, <<value.s>>,
                           <<Msg("call", "set_node_url", value.s),
                             Msg("stdout", "Ethereum node URL saved.", value.s)>>, 0)]
  ELSE LET address == get_cached(c.address)
           node_url == get_cached(c.node_url)
       IN
         IF ~Truthy(address) /\ ~Truthy(value)
         THEN [cache |-> c,
               out |-> CliOutcome(command, <<>>, <<value.s>>,
                 <<Msg("stdout", "Error: Ethereum address not set. Use 'set_address' command or provide address as an argument.", <<>>)>>,
                 1)]
         ELSE IF ~Truthy(node_url)
         THEN [cache |-> c,
               out |-> CliOutcome(command, <<>>, <<value.s>>,
                 <<Msg("stdout", "Error: Ethereum node URL not set. Use 'set_node_url' command.", <<>>)>>,
                 1)]
         ELSE [cache |-> c,
               out |-> CliOutcome(command, <<>>, <<value.s>>,
                 <<Msg("call", command, node_url.s),
                   Msg("call", command, IF ~Truthy(value) THEN address.s ELSE value.s)>>,
                 0)]

(* ------------------------------- scan check ---------------------------- *)

\* str.lower() on one run of characters of an address
LowerRun(c) ==
  CASE c = "0X" -> "0x" [] c = "BADCONTRACT" -> "badcontract"
    [] c = "ANOTHERBAD" -> "anotherbad" [] OTHER -> c

LowerAddress(address) == [i \in 1..Len(address) |-> LowerRun(address[i])]

\* the number of characters of one run
RunLen(c) ==
  CASE c \in {"0x", "0X"} -> 2
    [] c \in {"BADCONTRACT", "badcontract"} -> 11
    [] c \in {"ANOTHERBAD", "anotherbad"} -> 10
    [] c \in {"0000000000000000000000000001", "0000000000000000000000000002"} -> 28
    [] c \in {"52908400098527886e0f7030069857d2e4169ee7"} -> 40
    [] OTHER -> 1

\* len() of an address
RECURSIVE PyLen(_)
PyLen(address) == IF address = <<>> THEN 0 ELSE RunLen(address[1]) + PyLen(Tail(address))

\* the keys of mock_vulnerable_addresses
BadContract == <<"0x", "BADCONTRACT", "0000000000000000000000000001">>

AnotherBad == <<"0x", "ANOTHERBAD", "0000000000000000000000000002">>

mock_vulnerable_addresses ==
  (BadContract :> <<"Known Reentrancy Issue (CVE-XXXX-YYYY)", "Outdated Compiler Version">>)
  @@ (AnotherBad :> <<"Integer Overflow Potential (SWC-101)">>)

\* the dict query_vulnerability_db returns, every key present ("" and <<>>
\* where the dict has no such key)
ScanResult(address, vulnerabilities, status, error) ==
  [status |-> status, address |-> address, vulnerabilities |-> vulnerabilities,
   error |-> error]

query_vulnerability_db(address) ==
  IF LowerAddress(address) \in DOMAIN mock_vulnerable_addresses
  THEN ScanResult(address, mock_vulnerable_addresses[LowerAddress(address)], "vulnerable", "")
  ELSE IF PyLen(address) = 42
       THEN ScanResult(address, <<>>, "no_known_vulnerabilities_in_db", "")
       ELSE ScanResult(address, <<>>, "", "Invalid address format.")

\* `ethcli scan check ADDRESS [--api-key K]`: the result is echoed as JSON,
\* then a line that depends on its status
check_address_vulnerabilities(address, api_key) ==
  LET result == query_vulnerability_db(address) IN
    CliOutcome("scan check",
               IF api_key.given THEN <<"--api-key">> ELSE <<>>,
               <<address, api_key.s>>,
               <<Msg("stdout", "Checking address for known vulnerabilities...", address)>>
               \o (IF Truthy(api_key)
                   THEN <<Msg("stdout", "Using API key", First4(api_key.s))>> ELSE <<>>)
               \o <<Msg("stdout", "Querying vulnerability database (Simulated)", address),
                    Msg("stdout", "--- Vulnerability Check Result (Simulated) ---", <<>>),
                    Msg("stdout", "result.status", <<result.status>>),
                    Msg("stdout", "result.vulnerabilities", result.vulnerabilities),
                    Msg("stdout", "result.error", <<result.error>>)>>
               \o (CASE result.status = "vulnerable" ->
                          <<Msg("stdout", "Address is associated with known vulnerabilities!", address)>>
                     [] result.status = "no_known_vulnerabilities_in_db" ->
                          <<Msg("stdout", "No specific vulnerabilities found in the simulated database.", address),
                            Msg("stdout", "Note", <<>>)>>
                     [] OTHER ->
                          <<Msg("stdout", "Error checking address", <<result.error>>)>>),
               0)

(* ------------------------------- inputs -------------------------------- *)

\* the keys given to config set and config get
Keys ==
  { <<"default_network">>,
    <<"default_rpc_urls", ".", "goerli">>,
    <<"some_new_custom_key">>,
    <<"default_rpc_urls">>,
    <<"default_network", ".", "sub">>,
    <<"no_such_key", ".", "sub">>,
    <<>> }

\* the keys given to config get
GetKeys ==
  Keys \cup { <<"my_key", ".", "inner">>,
              <<"default_rpc_urls", ".", "goerli", ".", "x">> }

\* the raw values given to config set
RawValues ==
  { <<"t", "r", "u", "e">>,
    <<"F", "a", "l", "s", "e">>,
    <<"N", "U", "L", "L">>,
    <<"n", "o", "n", "e">>,
    <<"3", "0", "0", "0", "0", "0">>,
    <<"-", "3">>,
    <<"1", ".", "5">>,
    <<"1", "e", "3">>,
    <<"0", "x", "1", "0">>,
    <<"http://x">>,
    <<>> }

\* a document a user has edited: a changed default and a key of their own
CustomDoc ==
  DictSet(DictSet(DEFAULT_CONFIG, <<"default_network">>, StrV(<<"goerli">>)),
          <<"my_key">>, DictV(<<"inner">> :> IntV(7)))

\* what CONFIG_FILE may hold when the program starts
InitialFiles ==
  { Absent,
    File(json_dump(DEFAULT_CONFIG)),
    File(json_dump(CustomDoc)),
    File(json_dump(EmptyDict)),
    File(<<>>),
    File(<<Punct("{"), StrTok(<<"default_network">>), Punct(":")>>),
    File(json_dump(IntV(5))),
    File(json_dump(StrV(<<"default_network">>))) }

\* the (key, value) pairs given to config set: every raw value on one
\* key, three raw values of three types on every other key
SetInputs ==
  ({<<"default_network">>} \X RawValues)
  \cup (Keys \X {<<"t", "r", "u", "e">>, <<"3", "0", "0", "0", "0", "0">>, <<"http://x">>})

FsStates == {"ok", "unreadable", "unwritable"}

(* --------------------------- the state machine ------------------------- *)

NoCommand == config_path(Absent)

Init ==
  /\ disk \in InitialFiles
  /\ fs \in FsStates
  /\ last = [NoCommand EXCEPT !.cmd = "none", !.before = disk, !.disk = disk, !.msgs = <<>>]
  /\ steps = 0
  /\ resets = 0
  /\ procs = <<>>
  /\ versions = <<>>
  /\ cli = NoCli
  /\ defaults = DEFAULT_CONFIG
  /\ config_py = NothingConfigured
  /\ cache = Cache(Absent, Absent)

\* one invocation runs to completion; resets counts the confirmed resets in
\* a row that end with it
Finish(o) ==
  /\ steps < MaxSteps
  /\ last' = o
  /\ disk' = o.disk
  /\ steps' = steps + 1
  /\ resets' = IF o.cmd = "reset" /\ Confirmed(o.value[1]) THEN resets + 1 ELSE 0
  /\ UNCHANGED <<fs, procs, versions, cli, defaults, config_py, cache>>

ConfigSet == \E kv \in SetInputs : Finish(set_config_value(disk, fs, kv[1], kv[2]))

ConfigGet == \E key \in GetKeys : Finish(get_config_value(disk, fs, key))

ConfigReset == \E confirm \in Confirmations : Finish(reset_config(disk, fs, confirm))

ConfigPath == Finish(config_path(disk))

Next == ConfigSet \/ ConfigGet \/ ConfigReset \/ ConfigPath

Spec == Init /\ [][Next]_vars

FreshInit ==
  /\ disk \in {Absent, File(json_dump(DEFAULT_CONFIG))}
  /\ fs \in FsStates
  /\ last = [NoCommand EXCEPT !.cmd = "none", !.before = disk, !.disk = disk, !.msgs = <<>>]
  /\ steps = 0
  /\ resets = 0
  /\ procs = <<>>
  /\ versions = <<>>
  /\ cli = NoCli
  /\ defaults = DEFAULT_CONFIG
  /\ config_py = NothingConfigured
  /\ cache = Cache(Absent, Absent)

FreshSpec == FreshInit /\ [][Next]_vars

(* ----------------- invocations that run at the same time --------------- *)

\* Several CLI processes work on the one CONFIG_FILE.  An invocation's
\* steps on the file are those of load_config and save_config: the load
\* (exists + open 'r' + json.load), and for every save the open 'w', which
\* creates or truncates the file, and the close of the with block, which
\* writes the buffered text at the descriptor's offset 0.  The documents of
\* the model are shorter than the io buffer, so json.dump itself writes
\* nothing before the close.

Procs == {1, 2}

\* the invocations that race
RaceCommands ==
  { [value |-> <<"t", "r", "u", "e">>, cmd |-> "set", key |-> <<"some_new_custom_key">>],
    [value |-> <<"t", "r", "u", "e">>, cmd |-> "set", key |-> <<"default_rpc_urls">>],
    [value |-> <<"--yes">>, cmd |-> "reset", key |-> <<>>],
    [value |-> <<>>, cmd |-> "get", key |-> <<>>] }

\* what CONFIG_FILE may hold when the invocations start: absent or valid
RaceFiles == {Absent, File(json_dump(DEFAULT_CONFIG)), File(json_dump(CustomDoc))}

\* the invocation c run on the file d as it is read by its load
Run(c, d) ==
  CASE c.cmd = "set" -> set_config_value(d, "ok", c.key, c.value)
    [] c.cmd = "get" -> get_config_value(d, "ok", c.key)
    [] c.cmd = "reset" -> reset_config(d, "ok", c.value[1])
    [] OTHER -> config_path(d)

\* a write of text at offset 0 of a file holding old: what lies beyond the
\* written text stays
Overlay(old, text) == text \o Slice(old, Len(text) + 1, Len(old))

RaceInit ==
  /\ disk \in RaceFiles
  /\ fs = "ok"
  /\ last = [NoCommand EXCEPT !.cmd = "none", !.before = disk, !.disk = disk, !.msgs = <<>>]
  /\ steps = 0
  /\ resets = 0
  /\ \E cs \in [Procs -> RaceCommands] :
        procs = [p \in Procs |-> [cmd |-> cs[p], pc |-> "start", read |-> FALSE,
                                  observed |-> Absent, tosave |-> <<>>, texts |-> <<>>]]
  /\ versions = <<disk>>
  /\ cli = NoCli
  /\ defaults = DEFAULT_CONFIG
  /\ config_py = NothingConfigured
  /\ cache = Cache(Absent, Absent)

\* the invocation starts: it loads the file (set, get), runs in memory and
\* knows the documents it will hand to save_config, in order
RaceStart(p) ==
  /\ procs[p].pc = "start"
  /\ \E o \in {Run(procs[p].cmd, disk)} :
       \E texts \in {[i \in 1..Len(o.saved) |-> json_dump(o.saved[i])]} :
          procs' = [procs EXCEPT ![p] =
                      [@ EXCEPT !.pc = IF texts = <<>> THEN "done" ELSE "open",
                                !.read = o.loads > 0,
                                !.observed = IF o.loads > 0 THEN disk ELSE Absent,
                                !.tosave = texts,
                                !.texts = texts]]
  /\ UNCHANGED <<disk, fs, last, steps, resets, versions, cli, defaults, config_py, cache>>

\* open(CONFIG_FILE, 'w'): the file is there and empty
RaceOpen(p) ==
  /\ procs[p].pc = "open"
  /\ disk' = File(<<>>)
  /\ procs' = [procs EXCEPT ![p].pc = "close"]
  /\ UNCHANGED <<fs, last, steps, resets, versions, cli, defaults, config_py, cache>>

\* the with block ends: the text of json.dump is written at offset 0
RaceClose(p) ==
  /\ procs[p].pc = "close"
  /\ disk' = File(Overlay(disk.text, Head(procs[p].tosave)))
  /\ versions' = Append(versions, File(Head(procs[p].tosave)))
  /\ procs' = [procs EXCEPT ![p].tosave = Tail(@),
                            ![p].pc = IF Len(procs[p].tosave) = 1 THEN "done" ELSE "open"]
  /\ UNCHANGED <<fs, last, steps, resets, cli, defaults, config_py, cache>>

\* the process is killed during its save, after the open and before the
\* close: what it had buffered is lost
RaceKill(p) ==
  /\ procs[p].pc = "close"
  /\ procs' = [procs EXCEPT ![p].pc = "killed"]
  /\ UNCHANGED <<disk, fs, last, steps, resets, versions, cli, defaults, config_py, cache>>

RaceNext ==
  \E p \in Procs : RaceStart(p) \/ RaceOpen(p) \/ RaceClose(p) \/ RaceKill(p)

RaceSpec == RaceInit /\ [][RaceNext]_vars

(* ------------------ several operations in one process ----------------- *)

\* load_config() in a process whose module object DEFAULT_CONFIG holds g
process_load_config(g, d, f) ==
  LET parsed == json_load(d.text) IN
  IF ~d.exists
  THEN LET sv == save_config(d, f, g) IN
         [disk |-> sv.disk, written |-> sv.written, msgs |-> sv.msgs,
          config |-> g, saved |-> <<g>>, alias |-> "global"]
  ELSE IF f = "unreadable" \/ ~parsed.ok
  THEN [disk |-> d, written |-> FALSE, msgs |-> <<LoadWarning>>,
        config |-> g, saved |-> <<>>, alias |-> "copy"]
  ELSE [disk |-> d, written |-> FALSE, msgs |-> <<>>,
        config |-> parsed.val, saved |-> <<>>, alias |-> "none"]

\* the assignment current_level[final_key] = parsed_value reaches the
\* module object: config is that object itself, or its shallow copy and the
\* key lies in one of the nested dicts the copy shares with it
ReachesGlobal(alias, keys) ==
  alias = "global" \/ (alias = "copy" /\ Len(keys) > 1)

\* set_config_value(key, value) in such a process: what the invocation did
\* and what DEFAULT_CONFIG holds after it
process_set_config_value(g, d, f, key, value) ==
  LET L == process_load_config(g, d, f)
      keys == split(key, ".")
      W == WalkParents(L.config, keys, 1)
      parsed_value == coerce(value)
  IN
    IF W.status = "invalid"
    THEN [defaults |-> g,
          out |-> Outcome("set", key, value, d, L.disk,
                          L.msgs \o InvalidPath(join(Slice(keys, 1, W.at))), 0, FALSE,
                          Nothing, L.config, L.config, 1, L.saved, L.written)]
    ELSE IF W.status = "crash" \/ ~IsDict(W.level)
    THEN [defaults |-> g,
          out |-> Outcome("set", key, value, d, L.disk, L.msgs, 1, TRUE,
                          Nothing, L.config, L.config, 1, L.saved, L.written)]
    ELSE LET config == Assign(L.config, keys, parsed_value)
             sv == save_config(L.disk, f, config)
         IN  [defaults |-> IF ReachesGlobal(L.alias, keys)
                           THEN Assign(g, keys, parsed_value) ELSE g,
              out |-> Outcome("set", key, value, d, sv.disk,
                              L.msgs \o sv.msgs \o Updated(key), 0, FALSE,
                              parsed_value, L.config, config, 1, L.saved \o <<config>>,
                              sv.written)]

\* reset_config() in such a process, confirmed
process_reset_config(g, d, f) ==
  LET sv == save_config(d, f, g) IN
    Outcome("reset", <<>>, <<"--yes">>, d, sv.disk,
            sv.msgs \o <<Msg("stdout", "Configuration has been reset to defaults.", <<>>),
                         Msg("stdout", "Config file location", <<>>)>>,
            0, FALSE, g, Nothing, g, 0, <<g>>, sv.written)

ProcessInit ==
  /\ disk \in { Absent, File(json_dump(DEFAULT_CONFIG)), File(json_dump(CustomDoc)), File(<<>>) }
  /\ fs \in FsStates
  /\ last = [NoCommand EXCEPT !.cmd = "none", !.before = disk, !.disk = disk, !.msgs = <<>>]
  /\ steps = 0
  /\ resets = 0
  /\ procs = <<>>
  /\ versions = <<>>
  /\ cli = NoCli
  /\ defaults = DEFAULT_CONFIG
  /\ config_py = NothingConfigured
  /\ cache = Cache(Absent, Absent)

ProcessFinish(o, g) ==
  /\ steps < MaxSteps
  /\ last' = o
  /\ disk' = o.disk
  /\ steps' = steps + 1
  /\ defaults' = g
  /\ UNCHANGED <<fs, resets, procs, versions, cli, config_py, cache>>

ProcessLoad ==
  \E L \in {process_load_config(defaults, disk, fs)} :
    ProcessFinish(Outcome("load", <<>>, <<>>, disk, L.disk, L.msgs, 0, FALSE,
                          L.config, L.config, L.config, 1, L.saved, L.written),
                  defaults)

ProcessSet ==
  \E kv \in {<<"default_network">>, <<"default_rpc_urls", ".", "goerli">>,
              <<"some_new_custom_key">>, <<"default_network", ".", "sub">>}
             \X {<<"t", "r", "u", "e">>, <<"http://x">>} :
    \E r \in {process_set_config_value(defaults, disk, fs, kv[1], kv[2])} :
      ProcessFinish(r.out, r.defaults)

ProcessReset == ProcessFinish(process_reset_config(defaults, disk, fs), defaults)

ProcessNext == ProcessLoad \/ ProcessSet \/ ProcessReset

ProcessSpec == ProcessInit /\ [][ProcessNext]_vars

(* --------------------- commands outside the config group --------------- *)

\* the longest input given on stdin, in lines
MaxLines == 2

Aliases == {<<"mywallet1">>, <<"deletethiswallet">>}

\* the lines typed at a prompt
AnswerLines ==
  { <<"y">>, <<"Y", "E", "S">>, <<" ", "y", " ">>, <<"n">>, <<"N", "o">>, <<>>,
    <<"m", "a", "y", "b", "e">> }

Inputs == UNION {[1..n -> AnswerLines] : n \in 0..MaxLines}

PrivateKeys ==
  { NotGiven, Given(<<>>), Given(<<"0", "x">>),
    Given(<<"0", "x", "a", "b", "c", "d", "e", "f", "1", "2">>) }

Mnemonics ==
  { NotGiven, Given(<<>>), Given(<<"test">>),
    Given(<<"test", " ", "junk", " ", "only">>) }

CliInit ==
  /\ disk = Absent
  /\ fs = "ok"
  /\ last = [NoCommand EXCEPT !.cmd = "none", !.msgs = <<>>]
  /\ steps = 0
  /\ resets = 0
  /\ procs = <<>>
  /\ versions = <<>>
  /\ cli = NoCli
  /\ defaults = DEFAULT_CONFIG
  /\ config_py = NothingConfigured
  /\ cache = Cache(Absent, Absent)

CliFinish(o) ==
  /\ steps < MaxSteps
  /\ cli' = o
  /\ steps' = steps + 1
  /\ UNCHANGED <<disk, fs, last, resets, procs, versions, defaults, config_py, cache>>

WalletDelete ==
  \E alias \in Aliases : \E lines \in Inputs : CliFinish(delete_wallet(alias, lines))

WalletImport ==
  \E private_key_hex \in PrivateKeys : \E mnemonic_phrase \in Mnemonics :
     CliFinish(import_wallet(private_key_hex, mnemonic_phrase))

HelpExamples ==
  \E specific_command \in
       { NotGiven, Given(<<>>),
         Given(<<"w", "a", "l", "l", "e", "t">>),
         Given(<<"w", "a", "l", "l", "e">>),
         Given(<<"W", "a", "l", "l", "e", "t">>),
         Given(<<"t", "x">>),
         Given(<<"t", "x", " ", "s", "e", "n", "d">>),
         Given(<<"t", "x", "s">>),
         Given(<<"t">>),
         Given(<<"g", "e", "n", "e", "r", "a", "l">>),
         Given(<<"c", "o", "n", "f", "i", "g", " ", "g", "e", "t">>),
         Given(<<"s", "c", "a", "n">>) } :
    CliFinish(show_examples(specific_command))

ScanCheck ==
  \E address \in
       { BadContract, AnotherBad,
         <<"0x", "badcontract", "0000000000000000000000000001">>,
         <<"0X", "ANOTHERBAD", "0000000000000000000000000002">>,
         <<"0x", "52908400098527886e0f7030069857d2e4169ee7">>,
         <<"0x", "1", "2">>,
         <<>> },
     api_key \in {NotGiven, Given(<<"k", "e", "y", "1", "2">>)} :
    CliFinish(check_address_vulnerabilities(address, api_key))

CliNext == WalletDelete \/ WalletImport \/ HelpExamples \/ ScanCheck

CliSpec == CliInit /\ [][CliNext]_vars

\* what ethcli/config.py may hold when the program starts
InitialConfigPy ==
  { NothingConfigured,
    ConfigPy(Quoted(<<"0x", "de709f2102306220921060314715629080e2fb77">>),
             Quoted(<<"node-key-0">>), <<"None">>) }

AccountInit ==
  /\ disk = Absent
  /\ fs = "ok"
  /\ last = [NoCommand EXCEPT !.cmd = "none", !.before = disk, !.disk = disk, !.msgs = <<>>]
  /\ steps = 0
  /\ resets = 0
  /\ procs = <<>>
  /\ versions = <<>>
  /\ cli = NoCli
  /\ defaults = DEFAULT_CONFIG
  /\ config_py \in InitialConfigPy
  /\ cache = Cache(Absent, Absent)

AccountSet ==
  /\ steps < MaxSteps
  /\ \E eth_address \in
          { NotGiven,
            Given(<<"0x", "52908400098527886e0f7030069857d2e4169ee7">>),
            Given(<<"0x", "de709f2102306220921060314715629080e2fb77">>),
            Given(<<"0x", "12">>),
            Given(<<>>) },
        node_api_key \in
          {NotGiven, Given(<<"node-key-1">>), Given(<<"node", "'", "key">>), Given(<<>>)},
        etherscan_api_key \in {NotGiven, Given(<<"scan-key-1">>)} :
       \E r \in {set_config(config_py, eth_address, node_api_key, etherscan_api_key)} :
         /\ cli' = r.out
         /\ config_py' = r.file
  /\ steps' = steps + 1
  /\ UNCHANGED <<disk, fs, last, resets, procs, versions, defaults, cache>>

AccountNext == AccountSet

AccountSpec == AccountInit /\ [][AccountNext]_vars

\* what a cache file may hold when the program starts
CacheFiles ==
  { Absent, File(<<>>), File(<<" ", "\n">>),
    File(<<"0x52908400098527886e0f7030069857d2e4169ee7">>),
    File(<<"https://node", "\n">>) }

\* the positionals given to set_address and set_node_url
Positionals ==
  { <<"0x52908400098527886e0f7030069857d2e4169ee7">>,
    <<" ", "0xde709f2102306220921060314715629080e2fb77", "\n">>,
    <<"0x", "\r", "12">>,
    <<"https://node">>,
    <<>> }

EntryInit ==
  /\ disk = Absent
  /\ fs = "ok"
  /\ last = [NoCommand EXCEPT !.cmd = "none", !.before = disk, !.disk = disk, !.msgs = <<>>]
  /\ steps = 0
  /\ resets = 0
  /\ procs = <<>>
  /\ versions = <<>>
  /\ cli = NoCli
  /\ defaults = DEFAULT_CONFIG
  /\ config_py = NothingConfigured
  /\ cache \in {Cache(a, u) : a \in CacheFiles, u \in CacheFiles}

EntryFinish(r) ==
  /\ steps < MaxSteps
  /\ cli' = r.out
  /\ cache' = r.cache
  /\ steps' = steps + 1
  /\ UNCHANGED <<disk, fs, last, resets, procs, versions, defaults, config_py>>

SetAddress == \E a \in Positionals : EntryFinish(main(cache, "set_address", Given(a)))

SetNodeUrl == \E u \in Positionals : EntryFinish(main(cache, "set_node_url", Given(u)))

OtherCommand ==
  \E command \in {"network latest_block", "network gas_price", "account"},
     value \in {NotGiven, Given(<<>>),
                Given(<<"0xde709f2102306220921060314715629080e2fb77">>)} :
    EntryFinish(main(cache, command, value))

EntryNext == SetAddress \/ SetNodeUrl \/ OtherCommand

EntrySpec == EntryInit /\ [][EntryNext]_vars

(* ------------------------------ properties ----------------------------- *)

HasMsg(m) == \E i \in 1..Len(last.msgs) : last.msgs[i] = m

\* the value at a dotted path of a document, and whether the path leads
\* through documents to a member
RECURSIVE PathFound(_, _)
PathFound(doc, path) ==
  \/ Len(path) = 0
  \/ /\ doc.t = "dict"
     /\ path[1] \in DOMAIN doc.d
     /\ PathFound(doc.d[path[1]], Tail(path))

RECURSIVE PathValue(_, _)
PathValue(doc, path) ==
  IF Len(path) = 0 THEN doc ELSE PathValue(doc.d[path[1]], Tail(path))

\* the document the file holds (Nothing when it holds no JSON text)
OnDisk(d) ==
  LET parsed == json_load(d.text) IN IF d.exists /\ parsed.ok THEN parsed.val ELSE Nothing

\* the configuration the last invocation worked on: what its load_config
\* returned
Loaded == last.loaded

\* the segments of the last invocation's key
Segments == split(last.key, ".")

\* every non-final segment of the key resolves to a nested document
ParentsAreDocuments ==
  \A i \in 1..(Len(Segments) - 1) :
     /\ PathFound(Loaded, Slice(Segments, 1, i))
     /\ PathValue(Loaded, Slice(Segments, 1, i)).t = "dict"

\* C1: a document written by save_config is read back deep-equal by the
\* load_config that follows: whenever the last invocation's save wrote the
\* file, loading the file yields exactly the document that was saved.
C1_RoundTrip ==
  (last.written /\ fs = "ok")
    => load_config(disk, fs).config = last.saved[Len(last.saved)]

\* a save of a document holding a nested document, a string, an integer, a
\* boolean and null has been written and is on disk
C1_Witness ==
  /\ last.cmd = "set" /\ last.written /\ fs = "ok"
  /\ last.key = <<"some_new_custom_key">> /\ last.result = BoolV(TRUE)
  /\ last.config.d[<<"default_gas_limit">>] = IntV(2000000)
  /\ last.config.d[<<"default_wallet_alias">>] = NullV
  /\ last.config.d[<<"default_rpc_urls">>].t = "dict"
  /\ OnDisk(disk) = last.config

ExpectedCoercion(raw) ==
  CASE raw = <<"t", "r", "u", "e">> -> BoolV(TRUE)
    [] raw = <<"F", "a", "l", "s", "e">> -> BoolV(FALSE)
    [] raw = <<"N", "U", "L", "L">> -> NullV
    [] raw = <<"n", "o", "n", "e">> -> NullV
    [] raw = <<"3", "0", "0", "0", "0", "0">> -> IntV(300000)
    [] raw = <<"-", "3">> -> IntV(-3)
    [] raw = <<"1", ".", "5">> -> FloatV("fin", 15, -1)
    [] raw = <<"1", "e", "3">> -> FloatV("fin", 1, 3)
    [] OTHER -> StrV(raw)

\* C3: the value set stores is the coercion of the raw string: true / false
\* in any case a boolean, none / null in any case null, else an integer if
\* it parses as one, else a float if it parses as one, else the string
\* itself; a raw string of digits is never stored as a string.
C3_Coercion ==
  (last.cmd = "set" /\ HasMsg(Msg("stdout", "Configuration updated", last.key)))
    => /\ last.result = ExpectedCoercion(last.value)
       /\ PathValue(last.config, Segments) = ExpectedCoercion(last.value)
       /\ last.written => PathValue(OnDisk(disk), Segments) = ExpectedCoercion(last.value)
       /\ (last.value # <<>> /\ \A i \in 1..Len(last.value) : last.value[i] \in Digits)
            => last.result.t = "int"

\* a mixed-case false has been stored as the boolean, on disk too
C3_Witness ==
  /\ last.cmd = "set" /\ last.written
  /\ last.value = <<"F", "a", "l", "s", "e">>
  /\ OnDisk(disk).d[<<"default_network">>] = BoolV(FALSE)

\* the key up to and including its i-th segment
Prefix(i) == Slice(Segments, 1, i)

\* the i-th segment is looked up in something that is no document
LookedUpInScalar(i) ==
  PathFound(Loaded, Prefix(i - 1)) /\ PathValue(Loaded, Prefix(i - 1)).t # "dict"

\* the i-th segment is absent from the document it is looked up in
AbsentAt(i) ==
  /\ PathFound(Loaded, Prefix(i - 1))
  /\ PathValue(Loaded, Prefix(i - 1)).t = "dict"
  /\ Segments[i] \notin DOMAIN PathValue(Loaded, Prefix(i - 1)).d

\* the first non-final segment that is absent or no document
FirstBadParent ==
  CHOOSE i \in 1..(Len(Segments) - 1) :
    /\ ~(PathFound(Loaded, Prefix(i)) /\ PathValue(Loaded, Prefix(i)).t = "dict")
    /\ \A j \in 1..(i - 1) : PathFound(Loaded, Prefix(j)) /\ PathValue(Loaded, Prefix(j)).t = "dict"

\* set was given a key with a non-final segment that is absent or resolves
\* to a non-document value
InvalidParentCase == last.cmd = "set" /\ ~ParentsAreDocuments

\* set assigned nothing: no update was reported and the document in memory
\* is the one load returned, without any new intermediate document
AssignedNothing ==
  /\ ~HasMsg(Msg("stdout", "Configuration updated", last.key))
  /\ last.result = Nothing
  /\ last.config = Loaded

\* set reported InvalidParentPath, naming the key up to the offending segment
RefusedInvalidParent ==
  /\ HasMsg(Msg("stderr", "Error: Key path is not a valid dictionary in config.",
                join(Prefix(FirstBadParent))))
  /\ ~last.crashed

C5_AbsentFileGivesDefaults ==
  (last.cmd = "get" /\ ~last.before.exists)
    => /\ last.config = DEFAULT_CONFIG
       /\ last.saved = <<DEFAULT_CONFIG>>
       /\ fs # "unwritable" => (disk.exists /\ OnDisk(disk) = last.config)
       /\ last.key = <<>>
            => /\ last.exit = 0
               /\ HasMsg(Msg("stdout", "Current configuration:", <<>>))
               /\ last.result.d[<<"default_network">>] = StrV(<<"mainnet">>)
               /\ last.result.d[<<"default_wallet_alias">>] = NullV
               /\ DOMAIN last.result.d[<<"default_rpc_urls">>].d
                    = {<<"mainnet">>, <<"goerli">>, <<"sepolia">>}

\* the first `config get` has created the file with the defaults
C5_Witness ==
  /\ last.cmd = "get" /\ last.key = <<>> /\ ~last.before.exists
  /\ disk.exists /\ OnDisk(disk).d[<<"default_network">>] = StrV(<<"mainnet">>)

\* the file is there and load cannot parse or read it
UnloadableFile ==
  last.before.exists /\ (fs = "unreadable" \/ ~json_load(last.before.text).ok)

C7_LoadHasDefaultKeys ==
  last.cmd = "get"
    => /\ last.config.t = "dict"
       /\ DOMAIN DEFAULT_CONFIG.d \subseteq DOMAIN last.config.d

\* get was given a non-empty key and the configuration is a document
GetCase == last.cmd = "get" /\ last.key # <<>> /\ Loaded.t = "dict"

NonDocumentIntermediate == \E i \in 2..Len(Segments) : LookedUpInScalar(i)

AbsentSegment == \E i \in 1..Len(Segments) : AbsentAt(i)

\* C8: get on a non-empty path reports NotATraversableNode exactly when a
\* non-final segment resolves to a non-document value, KeyNotFound exactly
\* when a segment is absent from the document it is looked up in, and
\* otherwise prints the value at the path.
C8_GetErrors ==
  GetCase
    => /\ HasMsg(NotATraversableNode(last.key)) <=> NonDocumentIntermediate
       /\ HasMsg(KeyNotFound(last.key)) <=> AbsentSegment
       /\ HasMsg(Msg("stdout", "key = value", last.key))
            <=> (~NonDocumentIntermediate /\ ~AbsentSegment)
       /\ (~NonDocumentIntermediate /\ ~AbsentSegment)
            => (PathFound(Loaded, Segments) /\ last.result = PathValue(Loaded, Segments))
       /\ (NonDocumentIntermediate \/ AbsentSegment) => last.result = Nothing

\* get has gone below a string two documents deep and said so
C8_Witness ==
  /\ GetCase /\ last.key = <<"default_rpc_urls", ".", "goerli", ".", "x">>
  /\ PathValue(Loaded, <<<<"default_rpc_urls">>, <<"goerli">>>>).t = "str"
  /\ HasMsg(NotATraversableNode(last.key))
  /\ ~HasMsg(KeyNotFound(last.key))

\* "Error: Key '<key>' not found in configuration." on the error stream
NotFoundOnStderr == Msg("stderr", "Error: Key not found in configuration.", last.key)

\* get was given a key with a segment that is not in the configuration
MissingKeyCase == last.cmd = "get" /\ last.key # <<>> /\ AbsentSegment

\* get reported the missing key on stderr, exited 0 and changed nothing in
\* the document it loaded
ReportedMissingKey ==
  /\ HasMsg(NotFoundOnStderr)
  /\ \A i \in 1..Len(last.msgs) : last.msgs[i].stream = "stderr"
  /\ last.exit = 0 /\ ~last.crashed
  /\ last.config = Loaded

\* C9 as claimed: get of a key that is not in the configuration reports
\* "Key '<key>' not found in configuration." on stderr, exits 0, and the
\* on-disk document after the invocation equals the one before it.
C9_FileUnchanged_Original ==
  MissingKeyCase => (ReportedMissingKey /\ disk = last.before)

\* C9 as amended: get of a key that is not in the configuration reports the
\* error on stderr, exits 0 and leaves the document unmodified; a file that
\* existed is the same after the invocation as before it, and a file that
\* was absent is either still absent or has been created holding exactly
\* the built-in default document.
C9_MissingKey ==
  MissingKeyCase
    => /\ ReportedMissingKey
       /\ last.before.exists => (disk = last.before /\ last.saved = <<>>)
       /\ ~last.before.exists
            => /\ last.saved = <<DEFAULT_CONFIG>>
               /\ disk \in {last.before, File(json_dump(DEFAULT_CONFIG))}
               /\ fs # "unwritable" => OnDisk(disk) = DEFAULT_CONFIG

\* get of a key outside the schema on a user's document: reported, file kept
C9_Witness ==
  /\ last.cmd = "get" /\ last.key = <<"some_new_custom_key">>
  /\ OnDisk(last.before) = CustomDoc
  /\ HasMsg(NotFoundOnStderr) /\ last.exit = 0
  /\ disk = last.before

\* C10: a confirmed reset makes the on-disk document the built-in default
\* document: changed keys have their default values again and every key the
\* user added is gone.
C10_ResetRestoresDefaults ==
  (last.cmd = "reset" /\ Confirmed(last.value[1]) /\ fs # "unwritable")
    => /\ disk.exists
       /\ OnDisk(disk) = DEFAULT_CONFIG
       /\ OnDisk(disk).d[<<"default_network">>] = StrV(<<"mainnet">>)
       /\ DOMAIN OnDisk(disk).d
            = {<<"default_network">>, <<"default_wallet_alias">>, <<"default_gas_limit">>,
               <<"default_rpc_urls">>, <<"custom_networks">>, <<"etherscan_api_key">>}
       /\ last.exit = 0
       /\ HasMsg(Msg("stdout", "Configuration has been reset to defaults.", <<>>))

\* a reset has run on a document in which set had added a key and removed it
C10_Witness ==
  /\ last.cmd = "reset" /\ last.value = <<"y">> /\ steps = 2
  /\ OnDisk(last.before).t = "dict"
  /\ <<"some_new_custom_key">> \in DOMAIN OnDisk(last.before).d
  /\ OnDisk(disk) = DEFAULT_CONFIG

\* C11: two confirmed resets in a row both yield the built-in default
\* document, and the file after the second is the file after the first.
C11_ResetIdempotent ==
  [][(/\ last.cmd = "reset" /\ Confirmed(last.value[1])
      /\ last'.cmd = "reset" /\ Confirmed(last'.value[1]))
       => /\ last'.result = DEFAULT_CONFIG /\ last.result = DEFAULT_CONFIG
          /\ disk' = disk]_vars

\* a second confirmed reset in a row has run on a writable file
C11_Witness ==
  /\ resets = 2 /\ last.cmd = "reset" /\ fs = "ok"
  /\ last.before = File(json_dump(DEFAULT_CONFIG)) /\ disk = last.before

\* C12: reset overwrites the file only after an affirmative confirmation
\* (the answer y, or --yes); when the confirmation is declined or cannot be
\* obtained it saves nothing and the file is as it was.
C12_ResetFailsClosed ==
  last.cmd = "reset"
    => /\ last.saved # <<>> => last.value[1] \in {"--yes", "y"}
       /\ last.value[1] \in {"n", "eof"}
            => /\ last.saved = <<>> /\ ~last.written
               /\ disk = last.before
               /\ HasMsg(Msg("stderr", "Aborted!", <<>>))
               /\ ~HasMsg(Msg("stdout", "Configuration has been reset to defaults.", <<>>))

\* a reset with no input to answer the prompt has left a user's document
C12_Witness ==
  /\ last.cmd = "reset" /\ last.value = <<"eof">> /\ fs = "ok"
  /\ OnDisk(last.before) = CustomDoc /\ disk = last.before /\ last.exit = 1

\* set got as far as saving, and the save could not write the file
SetSaveFailed == last.cmd = "set" /\ last.saved # <<>> /\ ~last.written /\ last.result # Nothing

\* C13 as claimed: when the file cannot be written, set is treated as
\* failed: it exits non-zero and does not report the configuration as
\* updated, and the persisted document does not hold the attempted value.
C13_SaveFailureFailsSet ==
  SetSaveFailed
    => /\ last.exit # 0
       /\ ~HasMsg(Msg("stdout", "Configuration updated", last.key))
       /\ disk = last.before

\* C14 as claimed: no configuration command ends in an uncaught exception,
\* whatever the file holds and whatever the key and value.
C14_NoAbnormalTermination == ~last.crashed

\* C17 as claimed: each invocation performs at most one load and at most
\* one save, for every command and every initial state of the file.
C17_OneLoadOneSave_Original == last.loads <= 1 /\ Len(last.saved) <= 1

\* C17 as amended: each invocation performs at most one load, and at most
\* one save when the file exists at its start; when the file is absent the
\* load itself saves the defaults, so get performs one save and set with a
\* valid parent path two (the defaults, then the updated document); path
\* performs neither a load nor a save and reset no load.
C17_OneLoadOneSave ==
  /\ last.loads <= 1
  /\ last.before.exists => Len(last.saved) <= 1
  /\ ~last.before.exists
       => /\ Len(last.saved) <= 2
          /\ last.cmd = "get" => last.saved = <<DEFAULT_CONFIG>>
          /\ Len(last.saved) = 2
               => (last.cmd = "set" /\ last.saved[1] = DEFAULT_CONFIG
                   /\ last.saved[2] = last.config)
  /\ last.cmd = "path" => (last.loads = 0 /\ last.saved = <<>>)
  /\ last.cmd = "reset" => last.loads = 0
  /\ last.cmd \in {"set", "get"} => last.loads = 1

\* set on an absent file has saved twice
C17_Witness ==
  /\ last.cmd = "set" /\ ~last.before.exists /\ fs = "ok"
  /\ Len(last.saved) = 2 /\ last.loads = 1

AllEnded == \A p \in Procs : procs[p].pc \in {"done", "killed"}

\* C15 as claimed: starting from an absent or valid file, after any
\* invocations have ended (an invocation interrupted during its save
\* included), the file, when it exists, parses as a JSON document.
C15_AlwaysValidJson ==
  (AllEnded /\ disk.exists)
    => (json_load(disk.text).ok /\ json_load(disk.text).val.t = "dict")

\* C16 as claimed: a load by another invocation at any point during a save
\* sees the complete previous file or the complete new one, never an empty
\* or partly written file.
C16_AtomicSave ==
  \A p \in Procs :
     procs[p].read
       => \E q \in Procs :
            \/ procs[p].observed = versions[1]
            \/ \E i \in 1..Len(procs[q].texts) : procs[p].observed = File(procs[q].texts[i])

\* both invocations write the file and both have finished
BothWrote ==
  \A p \in Procs :
     /\ procs[p].cmd.cmd \in {"set", "reset"}
     /\ procs[p].pc = "done" /\ procs[p].texts # <<>>

\* C18 as claimed: after two concurrent writing invocations have both
\* finished, the file is the complete text saved by whichever saved last,
\* never a mixture of the two.
C18_LastWriteWins == BothWrote => disk = versions[Len(versions)]

CliHasMsg(m) == \E i \in 1..Len(cli.msgs) : cli.msgs[i] = m

\* the lines that answer the prompt with yes, and with no
Affirmative == {<<"y">>, <<"Y", "E", "S">>, <<" ", "y", " ">>}

Negative == {<<"n">>, <<"N", "o">>}

\* the first line of the input that is an answer (0 when there is none):
\* every line before it is neither yes, nor no, nor empty
FirstAnswer ==
  IF \E i \in 1..Len(cli.input) : cli.input[i] \in Affirmative \cup Negative \cup {<<>>}
  THEN CHOOSE i \in 1..Len(cli.input) :
         /\ cli.input[i] \in Affirmative \cup Negative \cup {<<>>}
         /\ \A j \in 1..(i - 1) : cli.input[j] \notin Affirmative \cup Negative \cup {<<>>}
  ELSE 0

AnsweredYes == FirstAnswer > 0 /\ cli.input[FirstAnswer] \in Affirmative

AnsweredNo == FirstAnswer > 0 /\ cli.input[FirstAnswer] \in Negative

\* the deletion step has been reached
DeletionStep ==
  \/ CliHasMsg(Msg("stdout", "Deleting wallet", cli.arg))
  \/ CliHasMsg(Msg("stdout", "Wallet deleted successfully.", cli.arg))

\* C20: `wallet delete <alias>` reaches the deletion step ("Deleting
\* wallet: <alias>", "deleted successfully") only after an affirmative
\* answer to the prompt, which it has printed before; on a negative answer
\* it aborts with exit status 1 and "Aborted!" without reaching the
\* deletion step.
C20_DeleteOnlyWhenConfirmed ==
  cli.cmd = "wallet delete"
    => /\ DeletionStep => AnsweredYes
       /\ AnsweredYes
            => /\ cli.exit = 0
               /\ Len(cli.msgs) >= 3
               /\ cli.msgs[1] = DeletePrompt(cli.arg)
               /\ cli.msgs[Len(cli.msgs) - 1] = Msg("stdout", "Deleting wallet", cli.arg)
               /\ cli.msgs[Len(cli.msgs)] = Msg("stdout", "Wallet deleted successfully.", cli.arg)
       /\ AnsweredNo
            => /\ cli.exit = 1
               /\ CliHasMsg(Msg("stderr", "Aborted!", <<>>))
               /\ ~DeletionStep

\* the answer n, given after a line that was no answer, has aborted the
\* delete
C20_Witness ==
  /\ cli.cmd = "wallet delete" /\ cli.arg = <<"deletethiswallet">>
  /\ cli.input = <<<<"m", "a", "y", "b", "e">>, <<"n">>>>
  /\ cli.exit = 1 /\ CliHasMsg(Msg("stderr", "Aborted!", <<>>)) /\ ~DeletionStep

\* C21 as claimed: import reports success if and only if a private key or
\* a mnemonic was supplied; with neither it prints the request for one on
\* stderr, exits 0 and does not report success.
C21_SuccessIffSupplied_Original ==
  cli.cmd = "wallet import"
    => /\ CliHasMsg(ImportedOk) <=> cli.arg # <<>>
       /\ cli.arg = <<>>
            => (CliHasMsg(PleaseProvide) /\ cli.exit = 0 /\ ~CliHasMsg(ImportedOk))

\* a private key or a mnemonic that is not the empty string was supplied
NonEmptySupplied == cli.input[1] # <<>> \/ cli.input[2] # <<>>

\* C21 as amended: import reports success if and only if a non-empty
\* private key or a non-empty mnemonic was supplied; with neither option,
\* or with only empty values, it prints the request for one on stderr,
\* exits 0 and does not report success.
C21_SuccessIffSupplied ==
  cli.cmd = "wallet import"
    => /\ CliHasMsg(ImportedOk) <=> NonEmptySupplied
       /\ cli.exit = 0
       /\ ~NonEmptySupplied
            => (cli.msgs = <<PleaseProvide>> /\ ~CliHasMsg(ImportedOk))
       /\ NonEmptySupplied
            => (~CliHasMsg(PleaseProvide) /\ cli.msgs[Len(cli.msgs)] = ImportedOk)

\* import without any option has asked for one and reported no success
C21_Witness ==
  /\ cli.cmd = "wallet import" /\ cli.arg = <<>>
  /\ cli.msgs = <<PleaseProvide>> /\ cli.exit = 0

\* the groups of the examples
Groups == {GroupOrder[i] : i \in 1..Len(GroupOrder)}

\* the group's name equals x or is a prefix of x
NameMatches(k, x) == \E n \in 0..Len(x) : Slice(x, 1, n) = k

\* the example section of group k has been printed: its header and every
\* one of its lines
SectionPrinted(k) ==
  /\ CliHasMsg(SectionHeader(k))
  /\ \A i \in 1..ExampleCount(k) : CliHasMsg(ExampleLine(k, i))

\* something of group k has been printed
SomethingPrinted(k) ==
  \E i \in 1..Len(cli.msgs) : StartsWith(cli.msgs[i].arg, k)

\* what the claim says `help examples --command x` prints
ExamplesAsClaimed(x) ==
  /\ \A k \in Groups : NameMatches(k, x) => SectionPrinted(k)
  /\ \A k \in Groups :
        (~NameMatches(k, x) /\ \E m \in Groups : NameMatches(m, x)) => ~SomethingPrinted(k)
  /\ (\A k \in Groups : ~NameMatches(k, x))
       => cli.msgs = <<NoSpecificExamples(x)>> \o ExampleLines(General, ExampleCount(General))
  /\ cli.exit = 0

\* C22 as claimed: `help examples --command X` prints the section of
\* exactly the groups whose name equals X or is a prefix of X; when no group
\* matches it prints "No specific examples found" and then the general
\* examples only.
C22_ExamplesForCommand_Original ==
  (cli.cmd = "help examples" /\ cli.arg = <<"--command">>)
    => ExamplesAsClaimed(cli.input[1])

\* C22 as amended: the same for every non-empty X; with an empty X the
\* command prints what it prints without the option, the overview of all
\* groups.
C22_ExamplesForCommand ==
  cli.cmd = "help examples"
    => /\ (cli.arg = <<"--command">> /\ cli.input[1] # <<>>) => ExamplesAsClaimed(cli.input[1])
       /\ (cli.arg = <<>> \/ cli.input[1] = <<>>)
            => /\ cli.msgs[1] = Msg("stdout", "--- Common ethcli Usage Examples ---", <<>>)
               /\ ~CliHasMsg(NoSpecificExamples(cli.input[1]))
               /\ cli.exit = 0

\* --command "tx send" has printed the tx section and nothing of wallet
C22_Witness ==
  /\ cli.cmd = "help examples"
  /\ cli.input = <<<<"t", "x", " ", "s", "e", "n", "d">>>>
  /\ cli.msgs[1] = SectionHeader(<<"t", "x">>)
  /\ Len(cli.msgs) = 7
  /\ ~SomethingPrinted(<<"w", "a", "l", "l", "e", "t">>)

\* every path of a document, the empty path included
RECURSIVE PathsOf(_)
PathsOf(doc) ==
  {<<>>} \cup (IF doc.t = "dict"
               THEN UNION {{<<k>> \o p : p \in PathsOf(doc.d[k])} : k \in DOMAIN doc.d}
               ELSE {})

\* what a document holds at a path (Nothing where the path does not lead)
At(doc, path) == IF PathFound(doc, path) THEN PathValue(doc, path) ELSE Nothing

\* path p begins with path q
Below(p, q) == Len(q) <= Len(p) /\ Slice(p, 1, Len(q)) = q

\* the last invocation was a set that reported success
SetSucceeded ==
  last.cmd = "set" /\ ~last.crashed /\ last.exit = 0 /\ HasMsg(Updated(last.key)[1])

\* the file held a JSON document before the last invocation
HeldValidDocument == last.before.exists /\ json_load(last.before.text).ok

\* the paths of the file's document before or after the last invocation
\* that are neither the key's path, nor below it, nor one of its parents
OtherPaths ==
  {p \in PathsOf(OnDisk(last.before)) \cup PathsOf(OnDisk(disk)) :
     ~Below(p, Segments) /\ ~Below(Segments, p)}

\* every such path leads to the same value in the file as before
OtherPathsKept ==
  \A p \in OtherPaths : At(OnDisk(disk), p) = At(OnDisk(last.before), p)

\* C23 as claimed: a successful set on key K changes only the value at
\* path K: when the file held a valid document before, every path other
\* than K and not below K has the same value in the file after as before.
C23_SetChangesOnlyKey_Original ==
  (SetSucceeded /\ HeldValidDocument) => OtherPathsKept

\* C23 as amended: the same, when the set could read the file; when it
\* could not, the set writes the built-in defaults with K assigned, whatever
\* valid document the file held.
C23_SetChangesOnlyKey ==
  (SetSucceeded /\ HeldValidDocument)
    => /\ fs # "unreadable" => OtherPathsKept
       /\ (fs = "unreadable" /\ last.written)
            => OnDisk(disk) = Assign(DEFAULT_CONFIG, Segments, coerce(last.value))

\* a set of the nested key on the edited document has been written, and the
\* user's own key and changed default are still in the file
C23_Witness ==
  /\ SetSucceeded /\ last.written /\ fs = "ok"
  /\ OnDisk(last.before) = CustomDoc
  /\ last.key = <<"default_rpc_urls", ".", "goerli">>
  /\ OnDisk(disk) # CustomDoc
  /\ At(OnDisk(disk), <<<<"my_key">>, <<"inner">>>>) = IntV(7)
  /\ At(OnDisk(disk), <<<<"default_rpc_urls">>, <<"mainnet">>>>) = StrV(InfuraUrl("https://mainnet"))
  /\ <<<<"default_network">>>> \in OtherPaths

\* the file was present and held no JSON text before the last invocation
HeldUnparseableText == last.before.exists /\ ~json_load(last.before.text).ok

\* every non-final segment of the key names a nested document of the
\* built-in defaults
ValidParentPathInDefaults ==
  \A i \in 1..(Len(Segments) - 1) :
     /\ PathFound(DEFAULT_CONFIG, Prefix(i))
     /\ PathValue(DEFAULT_CONFIG, Prefix(i)).t = "dict"

C25_DefaultsNeverModified ==
  /\ defaults = DEFAULT_CONFIG
  /\ (last.cmd = "reset" /\ last.written) => OnDisk(disk) = DEFAULT_CONFIG

\* the top-level keys of the default schema
DefaultSchemaKeys ==
  { <<"default_network">>, <<"default_wallet_alias">>, <<"default_gas_limit">>,
    <<"default_rpc_urls">>, <<"custom_networks">>, <<"etherscan_api_key">> }

\* C26: starting from an absent config file or from the default document,
\* after any sequence of get, set and reset invocations the file, once it
\* exists, holds a document in which every top-level key of the default
\* schema is present.
C26_DefaultKeysStay ==
  disk.exists
    => /\ OnDisk(disk).t = "dict"
       /\ \A k \in DefaultSchemaKeys : k \in DOMAIN OnDisk(disk).d

\* a nested document of the defaults has been replaced by a scalar, and the
\* key is still in the file
C26_Witness ==
  /\ steps = MaxSteps /\ last.cmd = "set" /\ last.written
  /\ last.key = <<"default_rpc_urls">>
  /\ OnDisk(disk).d[<<"default_rpc_urls">>] = BoolV(TRUE)
  /\ DefaultSchemaKeys \subseteq DOMAIN OnDisk(disk).d

\* the option of the account set that has just run for a setting
OptionGiven(name) ==
  \E i \in 1..Len(cli'.arg) :
     cli'.arg[i] = (CASE name = "ETH_ADDRESS" -> "--address"
                      [] name = "NODE_API_KEY" -> "--nodekey"
                      [] OTHER -> "--scankey")

OptionValue(name) ==
  cli'.input[CASE name = "ETH_ADDRESS" -> 1 [] name = "NODE_API_KEY" -> 2 [] OTHER -> 3]

\* the address that has been supplied is no valid Ethereum address
SuppliedAddressInvalid ==
  OptionGiven("ETH_ADDRESS")
    /\ OptionValue("ETH_ADDRESS") \notin
         { <<"0x", "52908400098527886e0f7030069857d2e4169ee7">>,
           <<"0x", "de709f2102306220921060314715629080e2fb77">> }

\* what the claim says of one run of account set
AccountSetAsClaimed ==
  IF cli'.arg = <<>> \/ SuppliedAddressInvalid
  THEN config_py' = config_py
  ELSE /\ Importable(config_py')
       /\ \A name \in SettingNames :
            Module(config_py')[name] =
              (IF OptionGiven(name) THEN Given(OptionValue(name)) ELSE Module(config_py)[name])

\* C27: account set writes the three settings so that each setting whose
\* option was supplied takes the supplied value and each setting whose option
\* was omitted keeps its previous value; when no option is supplied, or the
\* supplied address is not a valid Ethereum address, nothing is written and
\* all three settings are unchanged.
C27_AccountSetFrame ==
  [][(steps' = steps + 1 /\ cli'.cmd = "account set" /\ Importable(config_py))
       => AccountSetAsClaimed]_vars

\* the command function of the last entry-point run has been called
Dispatched == \E i \in 1..Len(cli.msgs) : cli.msgs[i].stream = "call"

\* the last entry-point run was one of the two set commands
IsSetCommand == cli.cmd \in {"set_address", "set_node_url"}

IsOtherCommand == cli.cmd \in {"network latest_block", "network gas_price", "account"}

\* a cache file holds something
Cached(file) == file.exists /\ \E i \in 1..Len(file.text) : file.text[i] \notin {" ", "\t", "\n", "\r"}

\* C28: in the argparse entry point a command other than set_address and
\* set_node_url is dispatched only when a node URL is cached and an address
\* is available, cached or given as the command's address argument, the
\* argument taking precedence; otherwise the process exits with status 1
\* without calling the command function.  set_address and set_node_url are
\* dispatched whatever the cached state is, and after set_address(a) the
\* cached address read back is a with surrounding whitespace stripped.
C28_EntryPointDispatch ==
  /\ IsOtherCommand =>
       /\ Dispatched => (Cached(cache.node_url) /\ (Cached(cache.address) \/ cli.input[1] # <<>>))
       /\ Dispatched =>
            CliHasMsg(Msg("call", cli.cmd,
                          IF cli.input[1] # <<>> THEN cli.input[1]
                          ELSE get_cached(cache.address).s))
       /\ ~Dispatched => cli.exit = 1
  /\ IsSetCommand => Dispatched
  /\ cli.cmd = "set_address" =>
       get_cached(cache.address) = Given(PyStrip(cli.input[1]))

\* the address of the last scan check
ScannedAddress == cli.input[1]

\* the address is a key of the mock list, compared without regard to case
IsMockKey ==
  \E k \in {BadContract, AnotherBad} : LowerAddress(ScannedAddress) = LowerAddress(k)

\* the vulnerabilities the mock list holds for the address
ListedVulnerabilities ==
  IF LowerAddress(ScannedAddress) = LowerAddress(BadContract)
  THEN <<"Known Reentrancy Issue (CVE-XXXX-YYYY)", "Outdated Compiler Version">>
  ELSE <<"Integer Overflow Potential (SWC-101)">>

ResultIs(status, vulnerabilities, error) ==
  /\ CliHasMsg(Msg("stdout", "result.status", <<status>>))
  /\ CliHasMsg(Msg("stdout", "result.vulnerabilities", vulnerabilities))
  /\ CliHasMsg(Msg("stdout", "result.error", <<error>>))

\* C29: query_vulnerability_db returns status "vulnerable" with the listed
\* vulnerabilities for every address that is a key of its mock list, compared
\* case-insensitively; for any other address of length 42 it returns status
\* "no_known_vulnerabilities_in_db" with an empty list; for any other input
\* the error "Invalid address format.".
C29_VulnerabilityLookup ==
  cli.cmd = "scan check"
    => IF IsMockKey THEN ResultIs("vulnerable", ListedVulnerabilities, "")
       ELSE IF PyLen(ScannedAddress) = 42
            THEN ResultIs("no_known_vulnerabilities_in_db", <<>>, "")
            ELSE ResultIs("", <<>>, "Invalid address format.")

====
